---- MODULE Spec2Model ----
(***************************************************************************)
(* Model of the GitHub repository mirror tool.                             *)
(*                                                                         *)
(* Two orchestrators are modelled, each from its own source:               *)
(*   variant = "client": cloneRepo of src/lib/github.ts, run in the        *)
(*                       browser, window of 5, default branch only;       *)
(*   variant = "server": mirrorRepo of the edge function (part_002),      *)
(*                       window of 10, secondary branches, reached through *)
(*                       the wrapper mirrorRepo of part_000.               *)
(* Both are started by handleClone (part_001) with addLog as the log sink. *)
(*                                                                         *)
(* An action is one turn of the JavaScript event loop: the arrival of the  *)
(* response of one remote call together with the continuation that runs    *)
(* until the next await.  pc names the remote call the main flow awaits.   *)
(***************************************************************************)
EXTENDS Integers, Sequences, FiniteSets, TLC

(***************************************************************************)
(* Bounds of the model and constants of the program.                       *)
(***************************************************************************)
MaxFaults == 1        \* remote calls that may fail for no modelled reason
SmallBlobs == 2       \* blobs on the default branch of the small sources
MaxRuns == 2          \* runs of handleClone in one session of the page
BigBlobs == 11        \* blobs on the default branch of the large source
ClientWindow == 5     \* github.ts: blobs.slice(i, i + 5)
ServerWindow == 10    \* part_002: blobs.slice(i, i + 10)
PerPage == 100        \* part_002: branches?per_page=100

Range(s) == {s[k] : k \in 1..Len(s)}

Min(a, b) == IF a < b THEN a ELSE b

(***************************************************************************)
(* Repository locators.  A URL is the sequence of its "/"-separated        *)
(* segments after the scheme, and a flag for a trailing ".git".            *)
(***************************************************************************)
Url(segs, git) == [segs |-> segs, git |-> git]

UrlEmpty == Url(<<>>, FALSE)
UrlSrc == Url(<<"github.com", "o", "src">>, FALSE)
UrlDst == Url(<<"github.com", "o", "dst">>, TRUE)
UrlWrongHost == Url(<<"gitlab.com", "o", "src">>, FALSE)
UrlNoRepo == Url(<<"github.com", "o">>, FALSE)
UrlUnknown == Url(<<"github.com", "o", "nope">>, FALSE)

NoMatch == [ok |-> FALSE, owner |-> "", repo |-> ""]

\* parseRepoUrl: url.replace(/\.git$/, "").match(/github\.com\/([^\/]+)\/([^\/]+)/);
\* the trailing ".git" is removed before matching, the match is the first
\* "github.com" segment followed by two non-empty segments.
parseRepoUrl_NoHostCheck(url) ==
    IF Len(url.segs) >= 3
    THEN [ok |-> TRUE, owner |-> url.segs[2], repo |-> url.segs[3]]
    ELSE NoMatch

parseRepoUrl(url) ==
    LET hits == {k \in 1..Len(url.segs) :
                    /\ url.segs[k] = "github.com"
                    /\ k + 2 <= Len(url.segs)
                    /\ url.segs[k + 1] # ""
                    /\ url.segs[k + 2] # ""}
    IN  IF hits = {} THEN NoMatch
        ELSE LET k == CHOOSE h \in hits : \A g \in hits : h <= g
             IN  [ok |-> TRUE, owner |-> url.segs[k + 1], repo |-> url.segs[k + 2]]

(***************************************************************************)
(* Log messages.  A message is its leading icon and its text, with the     *)
(* numbers and the name it interpolates.                                   *)
(***************************************************************************)
Msg(icon, text, n, m, name) ==
    [icon |-> icon, text |-> text, n |-> n, m |-> m, name |-> name]

Plain(icon, text) == Msg(icon, text, 0, 0, "")

\* parseIcon (part_000): the severity of a replayed server message.
parseIcon_NoWarn(msg) ==
    IF msg.icon = "check" THEN "success"
    ELSE IF msg.icon = "cross" THEN "error"
    ELSE "info"

parseIcon(msg) ==
    IF msg.icon = "check" THEN "success"
    ELSE IF msg.icon = "warning" THEN "warn"
    ELSE IF msg.icon = "cross" THEN "error"
    ELSE "info"

\* addLog (part_001): one entry of the log sink.
Entry(msg, type) == [msg |-> msg, type |-> type]

(***************************************************************************)
(* The remote object graph.  A tree entry is {path, sha, type, mode}; a    *)
(* blob id is the hash of its content, a tree id stands for its listing,   *)
(* a commit id is its index in the destination's commit store.             *)
(***************************************************************************)
BlobEntry(path, sha, mode) ==
    [path |-> path, sha |-> sha, type |-> "blob", mode |-> mode]

DirEntry(path) ==
    [path |-> path, sha |-> 0, type |-> "tree", mode |-> "040000"]

\* the recursive listing of a branch with n blobs: one directory entry and
\* the blobs below it; the first blob is executable
Listing(b, n) ==
    IF n = 0 THEN <<>>
    ELSE <<DirEntry(0)>> \o
         [k \in 1..n |-> BlobEntry(k, 100 * b + k,
                                   IF k = 1 THEN "100755" ELSE "100644")]

BlobContent(sha) == [content |-> <<sha>>, encoding |-> "base64"]

ShaOf(content) == content[1]

Branch(name, sha) == [name |-> name, commit |-> [sha |-> sha]]

\* source repositories
SrcEmpty ==
    [private |-> FALSE, default_branch |-> "main",
     branches |-> <<Branch("main", "c_main")>>,
     trees |-> [key \in {"main", "c_main"} |-> <<>>]]

SrcTwo ==
    [private |-> FALSE, default_branch |-> "main",
     branches |-> <<Branch("dev", "c_dev"), Branch("main", "c_main")>>,
     trees |-> [key \in {"main", "c_main", "c_dev"} |->
                  IF key = "c_dev" THEN Listing(2, 1) ELSE Listing(1, SmallBlobs)]]

SrcThree ==
    [private |-> FALSE, default_branch |-> "main",
     branches |-> <<Branch("dev", "c_dev"), Branch("main", "c_main"),
                    Branch("master", "c_master")>>,
     trees |-> [key \in {"main", "c_main", "c_dev", "c_master"} |->
                  IF key = "c_dev" THEN Listing(2, 2)
                  ELSE IF key = "c_master" THEN Listing(3, 1)
                  ELSE Listing(1, SmallBlobs)]]

SrcBig ==
    [private |-> FALSE, default_branch |-> "main",
     branches |-> <<Branch("main", "c_main")>>,
     trees |-> [key \in {"main", "c_main"} |-> Listing(1, BigBlobs)]]

\* destination repositories, with unrelated content at their heads
OldTree == {BlobEntry(99, 999, "100644")}

OldCommit == [tree |-> OldTree, parents |-> <<>>, message |-> "old"]

DstSame ==
    [private |-> FALSE, default_branch |-> "main",
     refs |-> [r \in {"main"} |-> 1],
     commits |-> <<OldCommit>>]

DstOther ==
    [private |-> FALSE, default_branch |-> "master",
     refs |-> [r \in {"master", "dev"} |-> 1],
     commits |-> <<OldCommit>>]

(***************************************************************************)
(* The runs that are checked: the inputs of handleClone and the state of   *)
(* the two repositories when it is invoked.                                *)
(***************************************************************************)
Run(v, su, du, st, dt, src, dst, f) ==
    [variant |-> v, sourceUrl |-> su, destUrl |-> du, sourceToken |-> st,
     destToken |-> dt, src |-> src, dst |-> dst, faults |-> f]

Variants == {"client", "server"}

\* malformed, unknown or missing inputs, against the plain repositories
InputRuns ==
    {Run(v, in[1], in[2], in[3], in[4], SrcTwo, DstSame, 0) :
        v \in Variants,
        in \in {<<UrlWrongHost, UrlDst, "tS", "tD">>,
                <<UrlSrc, UrlNoRepo, "tS", "tD">>,
                <<UrlNoRepo, UrlWrongHost, "tS", "tD">>,
                <<UrlUnknown, UrlDst, "tS", "tD">>,
                <<UrlSrc, UrlUnknown, "tS", "tD">>,
                <<UrlSrc, UrlDst, "bad", "tD">>,
                <<UrlSrc, UrlDst, "tS", "bad">>,
                <<UrlEmpty, UrlDst, "tS", "tD">>,
                <<UrlSrc, UrlEmpty, "tS", "tD">>,
                <<UrlSrc, UrlDst, "", "tD">>,
                <<UrlSrc, UrlDst, "tS", "">>}}

\* a private source, a private destination, or both
PrivateRuns ==
    {Run(v, UrlSrc, UrlDst, "tS", "tD",
         [SrcTwo EXCEPT !.private = p[1]], [DstSame EXCEPT !.private = p[2]], 0) :
        v \in Variants, p \in {<<TRUE, FALSE>>, <<FALSE, TRUE>>, <<TRUE, TRUE>>}}

\* public repositories of each shape, with remote calls that may fail
SmallRuns ==
    {Run(v, UrlSrc, UrlDst, "tS", "tD", src, dst, MaxFaults) :
        v \in Variants, src \in {SrcEmpty, SrcTwo, SrcThree}, dst \in {DstSame, DstOther}}

\* a default branch of more blobs than one window holds, no failing call
BigRuns ==
    {Run(v, UrlSrc, UrlDst, "tS", "tD", SrcBig, DstSame, 0) : v \in Variants}

Runs == InputRuns \cup PrivateRuns \cup SmallRuns \cup BigRuns

(***************************************************************************)
(* State.                                                                  *)
(***************************************************************************)
VARIABLES
    \* the inputs of handleClone and the two repositories
    variant, sourceUrl, destUrl, sourceToken, destToken, srcRepo, dstRepo,
    \* the destination's object graph and the remote calls that may still fail
    dstRefs, dstCommits, dstTrees, dstBlobs, faults,
    \* handleClone and the wrapper: position, log sink, the promise of the
    \* mirror operation, the HTTP response of the edge function
    uiPc, sink, promise, response,
    \* the orchestrator: awaited call, thrown error, server log array, locals
    pc, error, logs, sourceBranches, page, blobs, newTreeEntries, i,
    branchIdx, branchBlobs, branchTreeEntries, loc,
    \* the fetch-then-upload tasks of the copy windows and their results
    tasks, results,
    \* history: main-flow calls in issue order, calls per task (their number
    \* and, in issue order, the repository each addresses and the token it
    \* carries), uploads done, whether a task returned before a task listed
    \* ahead of it in its window, branches whose replication was caught
    calls, blobCalls, copied, overtook, caught,
    \* what each earlier run of the session that reached Done left behind
    earlier

\* what no step of a run changes
inputs == <<variant, sourceUrl, destUrl, sourceToken, destToken, srcRepo, dstRepo,
            earlier>>

remote == <<dstRefs, dstCommits, dstTrees, dstBlobs>>

front == <<uiPc, sink, promise, response>>

lists == <<sourceBranches, page, blobs, newTreeEntries, i, branchIdx,
           branchBlobs, branchTreeEntries>>

locals == <<lists, loc>>

window == <<tasks, results, blobCalls, copied, overtook>>

vars == <<inputs, remote, faults, front, pc, error, logs, locals, window,
          calls, caught>>

EmptyFn == [t \in {} |-> 0]

NoError == [kind |-> "", status |-> 0, op |-> ""]

Pending == [state |-> "pending", reason |-> NoError]

NoResponse == [status |-> 0, success |-> FALSE, logs |-> <<>>, error |-> NoError]

NoLocals ==
    [sFull |-> "", sBranch |-> "", dFull |-> "", dBranch |-> "", destRef |-> 0,
     emptyTree |-> {}, emptyCommit |-> 0, currentDestRef |-> 0, newTree |-> {},
     newCommit |-> 0, bTree |-> {}, bCommit |-> 0]

Init ==
    /\ \E r \in Runs :
        /\ variant = r.variant
        /\ sourceUrl = r.sourceUrl
        /\ destUrl = r.destUrl
        /\ sourceToken = r.sourceToken
        /\ destToken = r.destToken
        /\ srcRepo = r.src
        /\ dstRepo = [private |-> r.dst.private, default_branch |-> r.dst.default_branch,
                      priorCommits |-> Len(r.dst.commits),
                      priorRefs |-> DOMAIN r.dst.refs]
        /\ dstRefs = r.dst.refs
        /\ dstCommits = r.dst.commits
        /\ dstTrees = {r.dst.commits[c].tree : c \in 1..Len(r.dst.commits)}
        /\ dstBlobs = UNION {{e.sha : e \in r.dst.commits[c].tree} :
                               c \in 1..Len(r.dst.commits)}
        /\ faults = r.faults
    /\ uiPc = "idle"
    /\ sink = <<>>
    /\ promise = Pending
    /\ response = NoResponse
    /\ pc = "idle"
    /\ error = NoError
    /\ logs = <<>>
    /\ sourceBranches = <<>>
    /\ page = 1
    /\ blobs = <<>>
    /\ newTreeEntries = <<>>
    /\ i = 0
    /\ branchIdx = 0
    /\ branchBlobs = <<>>
    /\ branchTreeEntries = <<>>
    /\ loc = NoLocals
    /\ tasks = EmptyFn
    /\ results = EmptyFn
    /\ blobCalls = EmptyFn
    /\ copied = {}
    /\ overtook = FALSE
    /\ calls = <<>>
    /\ caught = <<>>
    /\ earlier = <<>>

(***************************************************************************)
(* The remote API as ghFetch sees it: a response is ok with its data, or   *)
(* not ok with its status.  A call fails when the API refuses it or when   *)
(* it is one of the calls that fail for no modelled reason (fault).        *)
(***************************************************************************)
Faulty == IF faults > 0 THEN {FALSE, TRUE} ELSE {FALSE}

Spend(fault) == faults' = IF fault THEN faults - 1 ELSE faults

Ok(data) == [ok |-> TRUE, status |-> 200, data |-> data]

Refused(status) == [ok |-> FALSE, status |-> status, data |-> 0]

ApiError(op, status) == [kind |-> "GitHub API", status |-> status, op |-> op]

UrlError == [kind |-> "URL invalida", status |-> 0, op |-> "parseRepoUrl"]

PrivateError(side) == [kind |-> "deve ser publico", status |-> 0, op |-> side]

\* GET /repos/{owner}/{repo}
GetRepo(owner, repo, token, fault) ==
    IF fault THEN Refused(500)
    ELSE IF token = "bad" THEN Refused(401)
    ELSE IF owner = "o" /\ repo = "src"
    THEN Ok([full_name |-> "o/src", private |-> srcRepo.private,
             default_branch |-> srcRepo.default_branch])
    ELSE IF owner = "o" /\ repo = "dst"
    THEN Ok([full_name |-> "o/dst", private |-> dstRepo.private,
             default_branch |-> dstRepo.default_branch])
    ELSE Refused(404)

\* GET /repos/{source}/branches?per_page=100&page={p}
ListBranches(p, fault) ==
    IF fault THEN Refused(500)
    ELSE Ok(SubSeq(srcRepo.branches, (p - 1) * PerPage + 1,
                   Min(p * PerPage, Len(srcRepo.branches))))

\* GET /repos/{source}/git/trees/{key}?recursive=1
GetTree(key, fault) ==
    IF fault THEN Refused(500)
    ELSE IF key \in DOMAIN srcRepo.trees THEN Ok([tree |-> srcRepo.trees[key]])
    ELSE Refused(404)

\* GET /repos/{source}/git/blobs/{sha}
GetBlob(sha, fault) == IF fault THEN Refused(500) ELSE Ok(BlobContent(sha))

\* POST /repos/{dest}/git/blobs
CreateBlob(body, fault) ==
    IF fault THEN Refused(500) ELSE Ok([sha |-> ShaOf(body.content)])

\* GET /repos/{dest}/git/ref/heads/{branch}
GetRef(branch, fault) ==
    IF fault THEN Refused(500)
    ELSE IF branch \in DOMAIN dstRefs THEN Ok([object |-> [sha |-> dstRefs[branch]]])
    ELSE Refused(404)

\* POST /repos/{dest}/git/trees: the listing must name blobs the destination has
CreateTree(entries, fault) ==
    IF fault THEN Refused(500)
    ELSE IF \A e \in Range(entries) : e.sha \in dstBlobs THEN Ok([sha |-> Range(entries)])
    ELSE Refused(422)

\* POST /repos/{dest}/git/commits: tree and parents must exist
CreateCommit(message, tree, parents, fault) ==
    IF fault THEN Refused(500)
    ELSE IF tree \in dstTrees /\ \A q \in Range(parents) : q \in 1..Len(dstCommits)
    THEN Ok([sha |-> Len(dstCommits) + 1])
    ELSE Refused(422)

\* PATCH /repos/{dest}/git/refs/heads/{branch} with force: the ref must exist
UpdateRef(branch, sha, fault) ==
    IF fault THEN Refused(500)
    ELSE IF branch \in DOMAIN dstRefs /\ sha \in 1..Len(dstCommits) THEN Ok(0)
    ELSE Refused(422)

\* POST /repos/{dest}/git/refs: the ref must not exist
CreateRef(branch, sha, fault) ==
    IF fault THEN Refused(500)
    ELSE IF branch \notin DOMAIN dstRefs /\ sha \in 1..Len(dstCommits) THEN Ok(0)
    ELSE Refused(422)

\* a main-flow call as issued: the endpoint, the repository it addresses,
\* the token it carries, the branch or key and the commit id it names
Call(op, side, token, name, sha) ==
    [op |-> op, side |-> side, token |-> token, name |-> name, sha |-> sha,
     tree |-> <<>>]

\* POST git/trees as issued: what the listing is for ("empty" for the wipe,
\* "manifest" for a copy), the branch it belongs to (0 for the default
\* branch, else the position in sourceBranches) and the listing
PostTree_KeepsOld(token, what, b, entries) ==
    [op |-> "createTree", side |-> "dest", token |-> token, name |-> what, sha |-> b,
     tree |-> entries \o <<BlobEntry(99, 999, "100644")>>]

PostTree(token, what, b, entries) ==
    [op |-> "createTree", side |-> "dest", token |-> token, name |-> what, sha |-> b,
     tree |-> entries]

\* the call the main flow awaits
Awaiting == calls[Len(calls)]

\* the body of a ref update: JSON.stringify({ sha: commit.sha, force: true })
RefBody_NotCommitted(commit) == [sha |-> commit.sha + 1, force |-> TRUE]

RefBody(commit) == [sha |-> commit.sha, force |-> TRUE]

\* the parents of a commit as posted: parents: [destRef.object.sha]
Parents_Orphan(head) == <<>>

Parents(head) == <<head>>

\* the count a progress line reports: Math.min(i + w, blobs.length)
Copiados_NoMin(from, w, total) == from + w

Copiados(from, w, total) == Min(from + w, total)

(***************************************************************************)
(* Copy windows.  A task is the async callback of batch.map for one blob:  *)
(* it awaits the fetch of the blob, then the upload, then returns a tree   *)
(* entry.  A task is named <<b, k>>: blob k of the list of branch b, with  *)
(* b = 0 for the default branch.  Promise.all settles when every task of   *)
(* the window has returned or as soon as one has thrown; the tasks it no   *)
(* longer waits for keep running.                                          *)
(***************************************************************************)
NoData == [content |-> <<>>, encoding |-> ""]

Task(phase, blob, blobData) == [phase |-> phase, blob |-> blob, blobData |-> blobData]

WindowKeys(b, list, from, w) == {<<b, k>> : k \in (from + 1)..Min(from + w, Len(list))}

\* batch.map(async (blob) => ...): every task of the window issues its fetch;
\* base holds the tasks that are still running
StartWindow_Unbounded(base, b, list, from, w) ==
    LET keys == {<<b, k>> : k \in (from + 1)..Len(list)}
    IN  /\ tasks' = [t \in DOMAIN base \cup keys |->
                        IF t \in keys THEN Task("fetching", list[t[2]], NoData)
                        ELSE base[t]]
        /\ blobCalls' = [t \in DOMAIN blobCalls \cup keys |->
                            IF t \in keys
                            THEN [getBlob |-> 1, createBlob |-> 0,
                                  sent |-> <<<<"source", sourceToken>>>>]
                            ELSE blobCalls[t]]

StartWindow(base, b, list, from, w) ==
    LET keys == WindowKeys(b, list, from, w)
    IN  /\ tasks' = [t \in DOMAIN base \cup keys |->
                        IF t \in keys THEN Task("fetching", list[t[2]], NoData)
                        ELSE base[t]]
        /\ blobCalls' = [t \in DOMAIN blobCalls \cup keys |->
                            IF t \in keys
                            THEN [getBlob |-> (IF t \in DOMAIN blobCalls
                                               THEN blobCalls[t].getBlob ELSE 0) + 1,
                                  createBlob |-> IF t \in DOMAIN blobCalls
                                                 THEN blobCalls[t].createBlob ELSE 0,
                                  sent |-> (IF t \in DOMAIN blobCalls
                                            THEN blobCalls[t].sent ELSE <<>>) \o
                                           <<<<"source", sourceToken>>>>]
                            ELSE blobCalls[t]]

Drop(f, gone) == [t \in DOMAIN f \ gone |-> f[t]]

Put(f, t, v) == [u \in DOMAIN f \cup {t} |-> IF u = t THEN v ELSE f[u]]

InFlight == {t \in DOMAIN tasks : tasks[t].phase \in {"fetching", "uploading"}}

\* the tasks the main flow awaits: those of the window of the current copy
Awaited(w) ==
    IF pc = "copy" THEN WindowKeys(0, blobs, i, w)
    ELSE IF pc = "brCopy" THEN WindowKeys(branchIdx, branchBlobs, i, w)
    ELSE {}

\* Promise.all(batch.map(...)) resolves with the last return of its tasks:
\* t returns now, every other task of the window has returned
AllReturned_First(win, t) == TRUE

\* t returns while a task of its window that the batch lists ahead of it is
\* still fetching or uploading
Overtakes(win, t) ==
    t \in win /\ \E u \in win : u[2] < t[2] /\ u \in DOMAIN tasks /\ tasks[u].phase # "done"

AllReturned(win, t) == \A u \in win \ {t} : u \in DOMAIN tasks /\ tasks[u].phase = "done"

\* the array Promise.all resolves with: the entries the tasks of the window
\* returned, in the order of the batch
RECURSIVE Collect_Backwards(_, _, _, _)
Collect_Backwards(b, from, upto, res) ==
    IF upto <= from THEN <<>>
    ELSE (IF <<b, upto>> \in DOMAIN res THEN <<res[<<b, upto>>]>> ELSE <<>>) \o
         Collect_Backwards(b, from, upto - 1, res)

RECURSIVE Collect(_, _, _, _)
Collect(b, from, upto, res) ==
    IF upto <= from THEN <<>>
    ELSE Collect(b, from, upto - 1, res) \o
         (IF <<b, upto>> \in DOMAIN res THEN <<res[<<b, upto>>]>> ELSE <<>>)

\* newTreeEntries.push(...results): the entries of the window that resolved
\* go behind those of the windows before it
Push_LastWindow(entries, batch) == batch

Push(entries, batch) == entries \o batch

\* tree.filter((e) => e.type === "blob")
Blobs_Unfiltered(tree) == tree

Blobs(tree) == SelectSeq(tree, LAMBDA e : e.type = "blob")

(***************************************************************************)
(* cloneRepo (src/lib/github.ts): the client-side orchestrator.            *)
(***************************************************************************)
serverOnly == <<response, logs, sourceBranches, page, branchIdx, branchBlobs,
                branchTreeEntries, caught>>

Info(text) == Entry(Plain("", text), "info")

Success(text) == Entry(Plain("", text), "success")

\* a throw out of cloneRepo: its promise rejects
cloneRepo_throw(err) ==
    /\ pc' = "failed"
    /\ error' = err
    /\ promise' = [state |-> "rejected", reason |-> err]

cloneRepo_goes(next) ==
    /\ pc' = next
    /\ UNCHANGED <<error, promise>>

\* cloneRepo up to its first await: log, validateRepo(sourceUrl, sourceToken)
cloneRepo_start ==
    LET p == parseRepoUrl(sourceUrl)
    IN  /\ sink' = <<Info("Validando repositorio de origem...")>>
        /\ IF p.ok
           THEN /\ cloneRepo_goes("validateSrc")
                /\ calls' = Append(calls, Call("getRepo", "source", sourceToken, "", 0))
           ELSE /\ cloneRepo_throw(UrlError)
                /\ UNCHANGED calls
        /\ UNCHANGED <<remote, faults, locals, window, serverOnly>>

\* the source is validated; validateRepo(destUrl, destToken) starts
cloneRepo_validateSource ==
    /\ variant = "client" /\ pc = "validateSrc"
    /\ \E fault \in Faulty :
        LET p == parseRepoUrl(sourceUrl)
            r == GetRepo(p.owner, p.repo, sourceToken, fault)
            q == parseRepoUrl(destUrl)
            said == sink \o <<Entry(Msg("", "Origem: (branch) ok", 0, 0,
                                        r.data.default_branch), "success"),
                              Info("Validando repositorio de destino...")>>
        IN  /\ Spend(fault)
            /\ IF ~r.ok
               THEN /\ cloneRepo_throw(ApiError("getRepo", r.status))
                    /\ UNCHANGED <<sink, calls, loc>>
               ELSE IF r.data.private
               THEN /\ cloneRepo_throw(PrivateError("origem"))
                    /\ UNCHANGED <<sink, calls, loc>>
               ELSE /\ sink' = said
                    /\ loc' = [loc EXCEPT !.sFull = r.data.full_name,
                                          !.sBranch = r.data.default_branch]
                    /\ IF q.ok
                       THEN /\ cloneRepo_goes("validateDst")
                            /\ calls' = Append(calls,
                                   Call("getRepo", "dest", destToken, "", 0))
                       ELSE /\ cloneRepo_throw(UrlError)
                            /\ UNCHANGED calls
    /\ UNCHANGED <<inputs, remote, uiPc, sourceBranches, page, blobs, newTreeEntries, i,
                   branchIdx, branchBlobs, branchTreeEntries, window, response, logs,
                   caught>>

\* the destination is validated; deleteAllContents starts and reads the head
cloneRepo_validateDest ==
    /\ variant = "client" /\ pc = "validateDst"
    /\ \E fault \in Faulty :
        LET q == parseRepoUrl(destUrl)
            r == GetRepo(q.owner, q.repo, destToken, fault)
        IN  /\ Spend(fault)
            /\ IF ~r.ok
               THEN /\ cloneRepo_throw(ApiError("getRepo", r.status))
                    /\ UNCHANGED <<sink, calls, loc>>
               ELSE IF r.data.private
               THEN /\ cloneRepo_throw(PrivateError("destino"))
                    /\ UNCHANGED <<sink, calls, loc>>
               ELSE /\ sink' = sink \o
                          <<Entry(Msg("", "Destino: (branch) ok", 0, 0,
                                      r.data.default_branch), "success"),
                            Info("Limpando repositorio de destino..."),
                            Info("Obtendo referencia do branch de destino...")>>
                    /\ loc' = [loc EXCEPT !.dFull = r.data.full_name,
                                          !.dBranch = r.data.default_branch]
                    /\ cloneRepo_goes("wipeGetRef")
                    /\ calls' = Append(calls, Call("getRef", "dest", destToken,
                                                   r.data.default_branch, 0))
    /\ UNCHANGED <<inputs, remote, uiPc, sourceBranches, page, blobs, newTreeEntries, i,
                   branchIdx, branchBlobs, branchTreeEntries, window, response, logs,
                   caught>>

\* deleteAllContents: the head is read, the empty tree is posted
cloneRepo_wipeGetRef ==
    /\ variant = "client" /\ pc = "wipeGetRef"
    /\ \E fault \in Faulty :
        LET r == GetRef(loc.dBranch, fault)
        IN  /\ Spend(fault)
            /\ IF ~r.ok
               THEN /\ cloneRepo_throw(ApiError("getRef", r.status))
                    /\ UNCHANGED <<calls, loc>>
               ELSE /\ loc' = [loc EXCEPT !.destRef = r.data.object.sha]
                    /\ cloneRepo_goes("wipeCreateTree")
                    /\ calls' = Append(calls, PostTree(destToken, "empty", 0, <<>>))
    /\ UNCHANGED <<inputs, remote, uiPc, sink, sourceBranches, page, blobs,
                   newTreeEntries, i, branchIdx, branchBlobs, branchTreeEntries, window,
                   response, logs, caught>>

\* deleteAllContents: the empty tree exists, the empty commit is posted
cloneRepo_wipeCreateTree ==
    /\ variant = "client" /\ pc = "wipeCreateTree"
    /\ \E fault \in Faulty :
        LET r == CreateTree(Awaiting.tree, fault)
        IN  /\ Spend(fault)
            /\ IF ~r.ok
               THEN /\ cloneRepo_throw(ApiError("createTree", r.status))
                    /\ UNCHANGED <<calls, loc, dstTrees>>
               ELSE /\ dstTrees' = dstTrees \cup {r.data.sha}
                    /\ loc' = [loc EXCEPT !.emptyTree = r.data.sha]
                    /\ cloneRepo_goes("wipeCreateCommit")
                    /\ calls' = Append(calls, Call("createCommit", "dest", destToken, "",
                                                   loc.destRef))
    /\ UNCHANGED <<inputs, dstRefs, dstCommits, dstBlobs, uiPc, sink, sourceBranches, page,
                   blobs, newTreeEntries, i, branchIdx, branchBlobs, branchTreeEntries,
                   window, response, logs, caught>>

\* deleteAllContents: the empty commit exists, the ref is force-updated to it
cloneRepo_wipeCreateCommit ==
    /\ variant = "client" /\ pc = "wipeCreateCommit"
    /\ \E fault \in Faulty :
        LET r == CreateCommit("Limpar repositorio para mirror", loc.emptyTree,
                              Parents(loc.destRef), fault)
        IN  /\ Spend(fault)
            /\ IF ~r.ok
               THEN /\ cloneRepo_throw(ApiError("createCommit", r.status))
                    /\ UNCHANGED <<calls, loc, dstCommits>>
               ELSE /\ dstCommits' = Append(dstCommits,
                          [tree |-> loc.emptyTree, parents |-> Parents(loc.destRef),
                           message |-> "Limpar repositorio para mirror"])
                    /\ loc' = [loc EXCEPT !.emptyCommit = r.data.sha]
                    /\ cloneRepo_goes("wipeUpdateRef")
                    /\ calls' = Append(calls, Call("updateRef", "dest", destToken,
                                                   loc.dBranch, RefBody(r.data).sha))
    /\ UNCHANGED <<inputs, dstRefs, dstTrees, dstBlobs, uiPc, sink, sourceBranches, page,
                   blobs, newTreeEntries, i, branchIdx, branchBlobs, branchTreeEntries,
                   window, response, logs, caught>>

\* deleteAllContents returns; getTree of the source default branch is issued
cloneRepo_wipeUpdateRef ==
    /\ variant = "client" /\ pc = "wipeUpdateRef"
    /\ \E fault \in Faulty :
        LET r == UpdateRef(Awaiting.name, Awaiting.sha, fault)
        IN  /\ Spend(fault)
            /\ IF ~r.ok
               THEN /\ cloneRepo_throw(ApiError("updateRef", r.status))
                    /\ UNCHANGED <<calls, sink, dstRefs>>
               ELSE /\ dstRefs' = [dstRefs EXCEPT ![Awaiting.name] = Awaiting.sha]
                    /\ sink' = sink \o
                          <<Success("Conteudo do destino removido"),
                            Info("Obtendo arvore de arquivos da origem...")>>
                    /\ cloneRepo_goes("getTree")
                    /\ calls' = Append(calls, Call("getTree", "source", sourceToken,
                                                   loc.sBranch, 0))
    /\ UNCHANGED <<inputs, dstCommits, dstTrees, dstBlobs, uiPc, locals, window,
                   response, logs, caught>>

\* the source tree is listed; the first window starts, or with no blob the
\* destination head is read again
cloneRepo_getTree ==
    /\ variant = "client" /\ pc = "getTree"
    /\ \E fault \in Faulty :
        LET r == GetTree(loc.sBranch, fault)
            found == Blobs(r.data.tree)
            said == sink \o <<Entry(Msg("", "arquivo(s) encontrado(s)", Len(found), 0, ""),
                                    "info"),
                              Info("Copiando arquivos para o destino...")>>
        IN  /\ Spend(fault)
            /\ IF ~r.ok
               THEN /\ cloneRepo_throw(ApiError("getTree", r.status))
                    /\ UNCHANGED <<calls, sink, blobs, newTreeEntries, i, tasks, blobCalls>>
               ELSE /\ blobs' = found
                    /\ newTreeEntries' = <<>>
                    /\ i' = 0
                    /\ IF Len(found) > 0
                       THEN /\ sink' = said
                            /\ cloneRepo_goes("copy")
                            /\ StartWindow(tasks, 0, found, 0, ClientWindow)
                            /\ UNCHANGED calls
                       ELSE /\ sink' = said \o <<Info("Criando nova arvore no destino...")>>
                            /\ cloneRepo_goes("commitGetRef")
                            /\ calls' = Append(calls, Call("getRef", "dest", destToken,
                                                           loc.dBranch, 0))
                            /\ UNCHANGED <<tasks, blobCalls>>
    /\ UNCHANGED <<inputs, remote, uiPc, sourceBranches, page, branchIdx, branchBlobs,
                   branchTreeEntries, loc, results, copied, overtook, response, logs, caught>>

\* a task's blob is fetched: the task posts it to the destination
cloneRepo_getBlob(t) ==
    /\ variant = "client" /\ t \in DOMAIN tasks /\ tasks[t].phase = "fetching"
    /\ \E fault \in Faulty :
        LET r == GetBlob(tasks[t].blob.sha, fault)
        IN  /\ Spend(fault)
            /\ IF r.ok
               THEN /\ tasks' = [tasks EXCEPT ![t] = Task("uploading", @.blob, r.data)]
                    /\ blobCalls' = [blobCalls EXCEPT
                                         ![t].createBlob = @ + 1,
                                         ![t].sent = Append(@, <<"dest", destToken>>)]
                    /\ UNCHANGED <<pc, error, promise>>
               ELSE /\ tasks' = Drop(tasks, {t})
                    /\ UNCHANGED blobCalls
                    /\ IF t \in Awaited(ClientWindow)
                       THEN cloneRepo_throw(ApiError("getBlob", r.status))
                       ELSE UNCHANGED <<pc, error, promise>>
    /\ UNCHANGED <<inputs, remote, uiPc, sink, locals, results, copied, overtook, calls, response,
                   logs, caught>>

\* a task's blob is posted: the task returns its tree entry; when it is the
\* last of its window Promise.all resolves, the entries are pushed, the
\* progress is logged and the loop goes on
cloneRepo_createBlob(t) ==
    /\ variant = "client" /\ t \in DOMAIN tasks /\ tasks[t].phase = "uploading"
    /\ \E fault \in Faulty :
        LET r == CreateBlob(tasks[t].blobData, fault)
            win == Awaited(ClientWindow)
            entry == [path |-> tasks[t].blob.path, mode |-> "100644", type |-> "blob",
                      sha |-> r.data.sha]
            got == Put(results, t, entry)
            upto == Min(i + ClientWindow, Len(blobs))
            shown == Copiados(i, ClientWindow, Len(blobs))
            progress == Entry(Msg("", "Copiados n/m arquivos...", shown, Len(blobs), ""),
                              "info")
        IN  /\ Spend(fault)
            /\ IF ~r.ok
               THEN /\ tasks' = Drop(tasks, {t})
                    /\ IF t \in win
                       THEN cloneRepo_throw(ApiError("createBlob", r.status))
                       ELSE UNCHANGED <<pc, error, promise>>
                    /\ UNCHANGED <<dstBlobs, copied, overtook, results, blobCalls, newTreeEntries, i,
                                   sink, calls>>
               ELSE /\ dstBlobs' = dstBlobs \cup {r.data.sha}
                    /\ copied' = copied \cup {t}
                    /\ overtook' = (overtook \/ Overtakes(win, t))
                    /\ IF t \notin win
                       THEN /\ tasks' = Drop(tasks, {t})
                            /\ UNCHANGED <<pc, error, promise, results, blobCalls,
                                           newTreeEntries, i, sink, calls>>
                       ELSE IF ~AllReturned(win, t)
                       THEN /\ tasks' = [tasks EXCEPT ![t].phase = "done"]
                            /\ results' = got
                            /\ UNCHANGED <<pc, error, promise, blobCalls, newTreeEntries,
                                           i, sink, calls>>
                       ELSE /\ newTreeEntries' = Push(newTreeEntries, Collect(0, i, upto, got))
                            /\ results' = Drop(got, win)
                            /\ i' = i + ClientWindow
                            /\ IF i + ClientWindow < Len(blobs)
                               THEN /\ sink' = Append(sink, progress)
                                    /\ StartWindow(Drop(tasks, win), 0, blobs,
                                                   i + ClientWindow, ClientWindow)
                                    /\ UNCHANGED <<pc, error, promise, calls>>
                               ELSE /\ sink' = sink \o
                                          <<progress,
                                            Info("Criando nova arvore no destino...")>>
                                    /\ tasks' = Drop(tasks, win)
                                    /\ cloneRepo_goes("commitGetRef")
                                    /\ calls' = Append(calls,
                                           Call("getRef", "dest", destToken, loc.dBranch, 0))
                                    /\ UNCHANGED blobCalls
    /\ UNCHANGED <<inputs, dstRefs, dstCommits, dstTrees, uiPc, sourceBranches, page, blobs,
                   branchIdx, branchBlobs, branchTreeEntries, loc, response, logs, caught>>

\* the destination head is read again; the tree of the copied entries is posted
cloneRepo_commitGetRef ==
    /\ variant = "client" /\ pc = "commitGetRef"
    /\ \E fault \in Faulty :
        LET r == GetRef(loc.dBranch, fault)
        IN  /\ Spend(fault)
            /\ IF ~r.ok
               THEN /\ cloneRepo_throw(ApiError("getRef", r.status))
                    /\ UNCHANGED <<calls, loc>>
               ELSE /\ loc' = [loc EXCEPT !.currentDestRef = r.data.object.sha]
                    /\ cloneRepo_goes("commitCreateTree")
                    /\ calls' = Append(calls,
                           PostTree(destToken, "manifest", 0, newTreeEntries))
    /\ UNCHANGED <<inputs, remote, uiPc, sink, lists, window, response, logs, caught>>

\* the new tree exists; the mirror commit is posted
cloneRepo_commitCreateTree ==
    /\ variant = "client" /\ pc = "commitCreateTree"
    /\ \E fault \in Faulty :
        LET r == CreateTree(Awaiting.tree, fault)
        IN  /\ Spend(fault)
            /\ IF ~r.ok
               THEN /\ cloneRepo_throw(ApiError("createTree", r.status))
                    /\ UNCHANGED <<calls, loc, dstTrees, sink>>
               ELSE /\ dstTrees' = dstTrees \cup {r.data.sha}
                    /\ loc' = [loc EXCEPT !.newTree = r.data.sha]
                    /\ sink' = Append(sink, Info("Criando commit no destino..."))
                    /\ cloneRepo_goes("commitCreateCommit")
                    /\ calls' = Append(calls, Call("createCommit", "dest", destToken, "",
                                                   loc.currentDestRef))
    /\ UNCHANGED <<inputs, dstRefs, dstCommits, dstBlobs, uiPc, lists, window, response,
                   logs, caught>>

\* the mirror commit exists; the ref is force-updated to it
cloneRepo_commitCreateCommit ==
    /\ variant = "client" /\ pc = "commitCreateCommit"
    /\ \E fault \in Faulty :
        LET r == CreateCommit("Mirror de", loc.newTree, Parents(loc.currentDestRef), fault)
        IN  /\ Spend(fault)
            /\ IF ~r.ok
               THEN /\ cloneRepo_throw(ApiError("createCommit", r.status))
                    /\ UNCHANGED <<calls, loc, dstCommits>>
               ELSE /\ dstCommits' = Append(dstCommits,
                          [tree |-> loc.newTree, parents |-> Parents(loc.currentDestRef),
                           message |-> "Mirror de"])
                    /\ loc' = [loc EXCEPT !.newCommit = r.data.sha]
                    /\ cloneRepo_goes("commitUpdateRef")
                    /\ calls' = Append(calls, Call("updateRef", "dest", destToken,
                                                   loc.dBranch, RefBody(r.data).sha))
    /\ UNCHANGED <<inputs, dstRefs, dstTrees, dstBlobs, uiPc, sink, lists, window,
                   response, logs, caught>>

\* the ref is moved; cloneRepo logs its success and its note and returns
cloneRepo_commitUpdateRef ==
    /\ variant = "client" /\ pc = "commitUpdateRef"
    /\ \E fault \in Faulty :
        LET r == UpdateRef(Awaiting.name, Awaiting.sha, fault)
        IN  /\ Spend(fault)
            /\ IF ~r.ok
               THEN /\ cloneRepo_throw(ApiError("updateRef", r.status))
                    /\ UNCHANGED <<sink, dstRefs>>
               ELSE /\ dstRefs' = [dstRefs EXCEPT ![Awaiting.name] = Awaiting.sha]
                    /\ sink' = sink \o
                          <<Entry(Plain("check", "Mirror concluido com sucesso!"),
                                  "success"),
                            Entry(Plain("", "Nota: apenas o branch padrao"), "warn")>>
                    /\ pc' = "done"
                    /\ promise' = [state |-> "resolved", reason |-> NoError]
                    /\ UNCHANGED error
    /\ UNCHANGED <<inputs, dstCommits, dstTrees, dstBlobs, uiPc, locals, window, calls,
                   response, logs, caught>>

(***************************************************************************)
(* serve and mirrorRepo (part_002): the edge function.                     *)
(***************************************************************************)
clientOnly == <<uiPc, sink, promise>>

\* a throw out of mirrorRepo: serve's catch answers 500 with the message
mirrorRepo_throw_Retried(err) ==
    /\ pc' = pc
    /\ error' = error
    /\ response' = response

mirrorRepo_throw(err) ==
    /\ pc' = "failed"
    /\ error' = err
    /\ response' = [status |-> 500, success |-> FALSE, logs |-> <<>>, error |-> err]

mirrorRepo_goes(next) ==
    /\ pc' = next
    /\ UNCHANGED <<error, response>>

MissingFields == [kind |-> "Todos os campos sao obrigatorios", status |-> 400, op |-> "serve"]

\* serve: a request with a missing field is answered 400; otherwise
\* mirrorRepo runs up to its first await
serve_UrlsOnly ==
    /\ variant = "server" /\ pc = "request"
    /\ IF sourceUrl = UrlEmpty \/ destUrl = UrlEmpty
       THEN /\ pc' = "refused"
            /\ response' = [status |-> 400, success |-> FALSE, logs |-> <<>>,
                            error |-> MissingFields]
            /\ UNCHANGED <<error, logs, calls>>
       ELSE /\ logs' = <<Plain("magnifier", "Validando repositorio de origem...")>>
            /\ IF parseRepoUrl(sourceUrl).ok
               THEN /\ mirrorRepo_goes("validateSrc")
                    /\ calls' = Append(calls, Call("getRepo", "source", sourceToken, "", 0))
               ELSE /\ mirrorRepo_throw(UrlError)
                    /\ UNCHANGED calls
    /\ UNCHANGED <<inputs, remote, faults, clientOnly, locals, window, caught>>

serve ==
    /\ variant = "server" /\ pc = "request"
    /\ IF sourceUrl = UrlEmpty \/ destUrl = UrlEmpty \/ sourceToken = "" \/ destToken = ""
       THEN /\ pc' = "refused"
            /\ response' = [status |-> 400, success |-> FALSE, logs |-> <<>>,
                            error |-> MissingFields]
            /\ UNCHANGED <<error, logs, calls>>
       ELSE /\ logs' = <<Plain("magnifier", "Validando repositorio de origem...")>>
            /\ IF parseRepoUrl(sourceUrl).ok
               THEN /\ mirrorRepo_goes("validateSrc")
                    /\ calls' = Append(calls, Call("getRepo", "source", sourceToken, "", 0))
               ELSE /\ mirrorRepo_throw(UrlError)
                    /\ UNCHANGED calls
    /\ UNCHANGED <<inputs, remote, faults, clientOnly, locals, window, caught>>

Visibility(private) == IF private THEN "privado" ELSE "publico"

\* the source repository is read; the destination repository is requested
mirrorRepo_validateSource ==
    /\ variant = "server" /\ pc = "validateSrc"
    /\ \E fault \in Faulty :
        LET p == parseRepoUrl(sourceUrl)
            r == GetRepo(p.owner, p.repo, sourceToken, fault)
        IN  /\ Spend(fault)
            /\ IF ~r.ok
               THEN /\ mirrorRepo_throw(ApiError("getRepo", r.status))
                    /\ UNCHANGED <<logs, calls, loc>>
               ELSE /\ logs' = logs \o
                          <<Msg("check", "Origem: (branch, visibilidade)", 0, 0,
                                Visibility(r.data.private)),
                            Plain("magnifier", "Validando repositorio de destino...")>>
                    /\ loc' = [loc EXCEPT !.sFull = r.data.full_name,
                                          !.sBranch = r.data.default_branch]
                    /\ IF parseRepoUrl(destUrl).ok
                       THEN /\ mirrorRepo_goes("validateDst")
                            /\ calls' = Append(calls,
                                   Call("getRepo", "dest", destToken, "", 0))
                       ELSE /\ mirrorRepo_throw(UrlError)
                            /\ UNCHANGED calls
    /\ UNCHANGED <<inputs, remote, clientOnly, lists, window, caught>>

\* the destination repository is read; the first page of branches is requested
mirrorRepo_validateDest ==
    /\ variant = "server" /\ pc = "validateDst"
    /\ \E fault \in Faulty :
        LET q == parseRepoUrl(destUrl)
            r == GetRepo(q.owner, q.repo, destToken, fault)
        IN  /\ Spend(fault)
            /\ IF ~r.ok
               THEN /\ mirrorRepo_throw(ApiError("getRepo", r.status))
                    /\ UNCHANGED <<logs, calls, loc, sourceBranches, page>>
               ELSE /\ logs' = logs \o
                          <<Msg("check", "Destino: (branch, visibilidade)", 0, 0,
                                Visibility(r.data.private)),
                            Plain("clipboard", "Obtendo branches da origem...")>>
                    /\ loc' = [loc EXCEPT !.dFull = r.data.full_name,
                                          !.dBranch = r.data.default_branch]
                    /\ sourceBranches' = <<>>
                    /\ page' = 1
                    /\ mirrorRepo_goes("listBranches")
                    /\ calls' = Append(calls,
                           Call("listBranches", "source", sourceToken, "", 1))
    /\ UNCHANGED <<inputs, remote, clientOnly, blobs, newTreeEntries, i, branchIdx,
                   branchBlobs, branchTreeEntries, window, caught>>

\* if (!branches || branches.length === 0) break; ...
\* if (branches.length < 100) break;
LastPage_EmptyOnly(branches) == Len(branches) = 0

LastPage(branches) == Len(branches) = 0 \/ Len(branches) < PerPage

\* a page of branches arrives: the loop asks for the next page, or ends on an
\* empty or short page and the source tree is requested
mirrorRepo_listBranches ==
    /\ variant = "server" /\ pc = "listBranches"
    /\ \E fault \in Faulty :
        LET r == ListBranches(page, fault)
            all == sourceBranches \o r.data
        IN  /\ Spend(fault)
            /\ IF ~r.ok
               THEN /\ mirrorRepo_throw(ApiError("listBranches", r.status))
                    /\ UNCHANGED <<logs, calls, sourceBranches, page>>
               ELSE IF ~LastPage(r.data)
               THEN /\ sourceBranches' = all
                    /\ page' = page + 1
                    /\ mirrorRepo_goes("listBranches")
                    /\ calls' = Append(calls,
                           Call("listBranches", "source", sourceToken, "", page + 1))
                    /\ UNCHANGED logs
               ELSE /\ sourceBranches' = all
                    /\ logs' = logs \o
                          <<Msg("clipboard", "branch(es) encontrado(s)", Len(all), 0, ""),
                            Plain("folder", "Obtendo arvore de arquivos da origem...")>>
                    /\ mirrorRepo_goes("getTree")
                    /\ calls' = Append(calls, Call("getTree", "source", sourceToken,
                                                   loc.sBranch, 0))
                    /\ UNCHANGED page
    /\ UNCHANGED <<inputs, remote, clientOnly, blobs, newTreeEntries, i, branchIdx,
                   branchBlobs, branchTreeEntries, loc, window, caught>>

\* the source tree is listed; the wipe starts by reading the destination head
mirrorRepo_getTree ==
    /\ variant = "server" /\ pc = "getTree"
    /\ \E fault \in Faulty :
        LET r == GetTree(loc.sBranch, fault)
            found == Blobs(r.data.tree)
        IN  /\ Spend(fault)
            /\ IF ~r.ok
               THEN /\ mirrorRepo_throw(ApiError("getTree", r.status))
                    /\ UNCHANGED <<logs, calls, blobs>>
               ELSE /\ blobs' = found
                    /\ logs' = logs \o
                          <<Msg("folder", "arquivo(s) encontrado(s)", Len(found), 0, ""),
                            Plain("wastebasket", "Limpando repositorio de destino...")>>
                    /\ mirrorRepo_goes("wipeGetRef")
                    /\ calls' = Append(calls, Call("getRef", "dest", destToken,
                                                   loc.dBranch, 0))
    /\ UNCHANGED <<inputs, remote, clientOnly, sourceBranches, page, newTreeEntries, i,
                   branchIdx, branchBlobs, branchTreeEntries, loc, window, caught>>

\* the wipe: the head is read, the empty tree is posted
mirrorRepo_wipeGetRef ==
    /\ variant = "server" /\ pc = "wipeGetRef"
    /\ \E fault \in Faulty :
        LET r == GetRef(loc.dBranch, fault)
        IN  /\ Spend(fault)
            /\ IF ~r.ok
               THEN /\ mirrorRepo_throw(ApiError("getRef", r.status))
                    /\ UNCHANGED <<calls, loc>>
               ELSE /\ loc' = [loc EXCEPT !.destRef = r.data.object.sha]
                    /\ mirrorRepo_goes("wipeCreateTree")
                    /\ calls' = Append(calls, PostTree(destToken, "empty", 0, <<>>))
    /\ UNCHANGED <<inputs, remote, clientOnly, logs, lists, window, caught>>

\* the wipe: the empty tree exists, the empty commit is posted
mirrorRepo_wipeCreateTree ==
    /\ variant = "server" /\ pc = "wipeCreateTree"
    /\ \E fault \in Faulty :
        LET r == CreateTree(Awaiting.tree, fault)
        IN  /\ Spend(fault)
            /\ IF ~r.ok
               THEN /\ mirrorRepo_throw(ApiError("createTree", r.status))
                    /\ UNCHANGED <<calls, loc, dstTrees>>
               ELSE /\ dstTrees' = dstTrees \cup {r.data.sha}
                    /\ loc' = [loc EXCEPT !.emptyTree = r.data.sha]
                    /\ mirrorRepo_goes("wipeCreateCommit")
                    /\ calls' = Append(calls, Call("createCommit", "dest", destToken, "",
                                                   loc.destRef))
    /\ UNCHANGED <<inputs, dstRefs, dstCommits, dstBlobs, clientOnly, logs, lists, window,
                   caught>>

\* the wipe: the empty commit exists, the ref is force-updated to it
mirrorRepo_wipeCreateCommit ==
    /\ variant = "server" /\ pc = "wipeCreateCommit"
    /\ \E fault \in Faulty :
        LET r == CreateCommit("Limpar repositorio para mirror", loc.emptyTree,
                              Parents(loc.destRef), fault)
        IN  /\ Spend(fault)
            /\ IF ~r.ok
               THEN /\ mirrorRepo_throw(ApiError("createCommit", r.status))
                    /\ UNCHANGED <<calls, loc, dstCommits>>
               ELSE /\ dstCommits' = Append(dstCommits,
                          [tree |-> loc.emptyTree, parents |-> Parents(loc.destRef),
                           message |-> "Limpar repositorio para mirror"])
                    /\ loc' = [loc EXCEPT !.emptyCommit = r.data.sha]
                    /\ mirrorRepo_goes("wipeUpdateRef")
                    /\ calls' = Append(calls, Call("updateRef", "dest", destToken,
                                                   loc.dBranch, RefBody(r.data).sha))
    /\ UNCHANGED <<inputs, dstRefs, dstTrees, dstBlobs, clientOnly, logs, lists, window,
                   caught>>

\* mirrorRepo returns its log array: serve answers 200 with it
mirrorRepo_return(said) ==
    LET final == said \o
            <<Plain("check", "Mirror concluido com sucesso!"),
              Msg("chart", "Resumo: n arquivos, m branch(es) copiado(s)",
                  Len(blobs), Len(sourceBranches), "")>>
    IN  /\ logs' = final
        /\ pc' = "done"
        /\ response' = [status |-> 200, success |-> TRUE, logs |-> final,
                        error |-> NoError]
        /\ UNCHANGED <<error, calls, branchIdx>>

\* for (const branch of sourceBranches), from position `from`: the default
\* branch is skipped, the tree of the next branch is requested at its head
\* commit; after the last branch mirrorRepo returns
mirrorRepo_nextBranch_NoSkip(from, said) ==
    IF from > Len(sourceBranches)
    THEN mirrorRepo_return(said)
    ELSE /\ branchIdx' = from
         /\ logs' = said
         /\ mirrorRepo_goes("brGetTree")
         /\ calls' = Append(calls, Call("getTree", "source", sourceToken,
                                        sourceBranches[from].commit.sha, 0))

mirrorRepo_nextBranch(from, said) ==
    LET rest == {k \in from..Len(sourceBranches) : sourceBranches[k].name # loc.sBranch}
    IN  IF rest = {}
        THEN mirrorRepo_return(said)
        ELSE LET k == CHOOSE n \in rest : \A o \in rest : n <= o
             IN  /\ branchIdx' = k
                 /\ logs' = said
                 /\ mirrorRepo_goes("brGetTree")
                 /\ calls' = Append(calls, Call("getTree", "source", sourceToken,
                                                sourceBranches[k].commit.sha, 0))

BranchName == sourceBranches[branchIdx].name

\* the catch of the loop body: a warning names the branch, the loop goes on
mirrorRepo_catch_Rethrow(err) ==
    /\ mirrorRepo_throw(err)
    /\ caught' = caught
    /\ UNCHANGED <<logs, calls, branchIdx>>

mirrorRepo_catch(err) ==
    /\ caught' = Append(caught, BranchName)
    /\ mirrorRepo_nextBranch(branchIdx + 1,
           Append(logs, Msg("warning", "Erro ao copiar branch", err.status, 0, BranchName)))

\* step 7 begins: the destination head is read again
mirrorRepo_toCommit_Skipped(said) ==
    /\ logs' = said
    /\ mirrorRepo_goes("brGetTree")
    /\ calls' = Append(calls, Call("getTree", "source", sourceToken,
                                   sourceBranches[1].commit.sha, 0))

mirrorRepo_toCommit_SourceToken(said) ==
    /\ logs' = Append(said, Plain("tree", "Criando arvore no destino..."))
    /\ mirrorRepo_goes("commitGetRef")
    /\ calls' = Append(calls, Call("getRef", "dest", sourceToken, loc.dBranch, 0))

mirrorRepo_toCommit(said) ==
    /\ logs' = Append(said, Plain("tree", "Criando arvore no destino..."))
    /\ mirrorRepo_goes("commitGetRef")
    /\ calls' = Append(calls, Call("getRef", "dest", destToken, loc.dBranch, 0))

\* the wipe is done; the first window starts, or with no blob step 7 begins
mirrorRepo_wipeUpdateRef ==
    /\ variant = "server" /\ pc = "wipeUpdateRef"
    /\ \E fault \in Faulty :
        LET r == UpdateRef(Awaiting.name, Awaiting.sha, fault)
            said == logs \o <<Plain("check", "Destino limpo"),
                              Plain("package", "Copiando arquivos...")>>
        IN  /\ Spend(fault)
            /\ IF ~r.ok
               THEN /\ mirrorRepo_throw(ApiError("updateRef", r.status))
                    /\ UNCHANGED <<logs, calls, dstRefs, newTreeEntries, i, tasks, blobCalls>>
               ELSE /\ dstRefs' = [dstRefs EXCEPT ![Awaiting.name] = Awaiting.sha]
                    /\ newTreeEntries' = <<>>
                    /\ i' = 0
                    /\ IF Len(blobs) > 0
                       THEN /\ logs' = said
                            /\ mirrorRepo_goes("copy")
                            /\ StartWindow(tasks, 0, blobs, 0, ServerWindow)
                            /\ UNCHANGED calls
                       ELSE /\ mirrorRepo_toCommit(said)
                            /\ UNCHANGED <<tasks, blobCalls>>
    /\ UNCHANGED <<inputs, dstCommits, dstTrees, dstBlobs, clientOnly, sourceBranches, page,
                   blobs, branchIdx, branchBlobs, branchTreeEntries, loc, results, copied, overtook,
                   caught>>

\* a task's blob is fetched: the task posts it to the destination
mirrorRepo_getBlob_Again(t) ==
    /\ variant = "server" /\ t \in DOMAIN tasks /\ tasks[t].phase = "fetching"
    /\ \E fault \in Faulty :
        LET r == GetBlob(tasks[t].blob.sha, fault)
        IN  /\ Spend(fault)
            /\ IF r.ok
               THEN /\ tasks' = [tasks EXCEPT ![t] = Task("uploading", @.blob, r.data)]
                    /\ blobCalls' = [blobCalls EXCEPT
                                         ![t].createBlob = @ + 1,
                                         ![t].sent = Append(@, <<"dest", destToken>>)]
               ELSE /\ tasks' = tasks
                    /\ blobCalls' = [blobCalls EXCEPT
                                         ![t].getBlob = @ + 1,
                                         ![t].sent = Append(@, <<"source", sourceToken>>)]
    /\ UNCHANGED <<pc, error, response, logs, calls, branchIdx, caught>>
    /\ UNCHANGED <<inputs, remote, clientOnly, sourceBranches, page, blobs, newTreeEntries,
                   i, branchBlobs, branchTreeEntries, loc, results, copied, overtook>>

mirrorRepo_getBlob(t) ==
    /\ variant = "server" /\ t \in DOMAIN tasks /\ tasks[t].phase = "fetching"
    /\ \E fault \in Faulty :
        LET r == GetBlob(tasks[t].blob.sha, fault)
        IN  /\ Spend(fault)
            /\ IF r.ok
               THEN /\ tasks' = [tasks EXCEPT ![t] = Task("uploading", @.blob, r.data)]
                    /\ blobCalls' = [blobCalls EXCEPT
                                         ![t].createBlob = @ + 1,
                                         ![t].sent = Append(@, <<"dest", destToken>>)]
                    /\ UNCHANGED <<pc, error, response, logs, calls, branchIdx, caught>>
               ELSE /\ tasks' = Drop(tasks, {t})
                    /\ UNCHANGED blobCalls
                    /\ IF t \notin Awaited(ServerWindow)
                       THEN UNCHANGED <<pc, error, response, logs, calls, branchIdx, caught>>
                       ELSE IF pc = "copy"
                       THEN /\ mirrorRepo_throw(ApiError("getBlob", r.status))
                            /\ UNCHANGED <<logs, calls, branchIdx, caught>>
                       ELSE mirrorRepo_catch(ApiError("getBlob", r.status))
    /\ UNCHANGED <<inputs, remote, clientOnly, sourceBranches, page, blobs, newTreeEntries,
                   i, branchBlobs, branchTreeEntries, loc, results, copied, overtook>>

ModeOf_Regular(blob) == "100644"

ModeOf(blob) == IF blob.mode = "" THEN "100644" ELSE blob.mode

\* a task's blob is posted: the task returns its tree entry; when it is the
\* last of its window Promise.all resolves and the loop goes on: the next
\* window, or step 7 (default branch), or the branch's tree (secondary branch)
mirrorRepo_createBlob(t) ==
    /\ variant = "server" /\ t \in DOMAIN tasks /\ tasks[t].phase = "uploading"
    /\ \E fault \in Faulty :
        LET r == CreateBlob(tasks[t].blobData, fault)
            win == Awaited(ServerWindow)
            entry == [path |-> tasks[t].blob.path, mode |-> ModeOf(tasks[t].blob),
                      type |-> "blob", sha |-> r.data.sha]
            got == Put(results, t, entry)
            list == IF pc = "copy" THEN blobs ELSE branchBlobs
            upto == Min(i + ServerWindow, Len(list))
            shown == Copiados(i, ServerWindow, Len(blobs))
            batch == Collect(t[1], i, upto, got)
            progress == Msg("package", "n/m arquivos copiados", shown, Len(blobs), "")
        IN  /\ Spend(fault)
            /\ IF ~r.ok
               THEN /\ tasks' = Drop(tasks, {t})
                    /\ UNCHANGED <<dstBlobs, copied, overtook, results, blobCalls, newTreeEntries,
                                   branchTreeEntries, i>>
                    /\ IF t \notin win
                       THEN UNCHANGED <<pc, error, response, logs, calls, branchIdx, caught>>
                       ELSE IF pc = "copy"
                       THEN /\ mirrorRepo_throw(ApiError("createBlob", r.status))
                            /\ UNCHANGED <<logs, calls, branchIdx, caught>>
                       ELSE mirrorRepo_catch(ApiError("createBlob", r.status))
               ELSE /\ dstBlobs' = dstBlobs \cup {r.data.sha}
                    /\ copied' = copied \cup {t}
                    /\ overtook' = (overtook \/ Overtakes(win, t))
                    /\ UNCHANGED <<branchIdx, caught>>
                    /\ IF t \notin win
                       THEN /\ tasks' = Drop(tasks, {t})
                            /\ UNCHANGED <<pc, error, response, logs, calls, results,
                                           blobCalls, newTreeEntries, branchTreeEntries, i>>
                       ELSE IF ~AllReturned(win, t)
                       THEN /\ tasks' = [tasks EXCEPT ![t].phase = "done"]
                            /\ results' = got
                            /\ UNCHANGED <<pc, error, response, logs, calls, blobCalls,
                                           newTreeEntries, branchTreeEntries, i>>
                       ELSE /\ results' = Drop(got, win)
                            /\ i' = i + ServerWindow
                            /\ IF pc = "copy"
                               THEN /\ newTreeEntries' = Push(newTreeEntries, batch)
                                    /\ UNCHANGED branchTreeEntries
                                    /\ IF i + ServerWindow < Len(blobs)
                                       THEN /\ logs' = Append(logs, progress)
                                            /\ StartWindow(Drop(tasks, win), 0, blobs,
                                                           i + ServerWindow, ServerWindow)
                                            /\ UNCHANGED <<pc, error, response, calls>>
                                       ELSE /\ mirrorRepo_toCommit(Append(logs, progress))
                                            /\ tasks' = Drop(tasks, win)
                                            /\ UNCHANGED blobCalls
                               ELSE /\ branchTreeEntries' = Push(branchTreeEntries, batch)
                                    /\ UNCHANGED <<newTreeEntries, logs>>
                                    /\ IF i + ServerWindow < Len(branchBlobs)
                                       THEN /\ StartWindow(Drop(tasks, win), branchIdx,
                                                           branchBlobs, i + ServerWindow,
                                                           ServerWindow)
                                            /\ UNCHANGED <<pc, error, response, calls>>
                                       ELSE /\ tasks' = Drop(tasks, win)
                                            /\ mirrorRepo_goes("brCreateTree")
                                            /\ calls' = Append(calls,
                                                   PostTree(destToken, "manifest",
                                                            branchIdx,
                                                            branchTreeEntries \o batch))
                                            /\ UNCHANGED blobCalls
    /\ UNCHANGED <<inputs, dstRefs, dstCommits, dstTrees, clientOnly, sourceBranches, page,
                   blobs, branchBlobs, loc>>

\* the destination head is read again; the tree of the copied entries is posted
mirrorRepo_commitGetRef_WipeHead ==
    /\ variant = "server" /\ pc = "commitGetRef"
    /\ \E fault \in Faulty :
        LET r == GetRef(loc.dBranch, fault)
        IN  /\ Spend(fault)
            /\ IF ~r.ok
               THEN /\ mirrorRepo_throw(ApiError("getRef", r.status))
                    /\ UNCHANGED <<calls, loc>>
               ELSE /\ loc' = [loc EXCEPT !.currentDestRef = loc.emptyCommit]
                    /\ mirrorRepo_goes("commitCreateTree")
                    /\ calls' = Append(calls,
                           PostTree(destToken, "manifest", 0, newTreeEntries))
    /\ UNCHANGED <<inputs, remote, clientOnly, logs, lists, window, caught>>

mirrorRepo_commitGetRef ==
    /\ variant = "server" /\ pc = "commitGetRef"
    /\ \E fault \in Faulty :
        LET r == GetRef(loc.dBranch, fault)
        IN  /\ Spend(fault)
            /\ IF ~r.ok
               THEN /\ mirrorRepo_throw(ApiError("getRef", r.status))
                    /\ UNCHANGED <<calls, loc>>
               ELSE /\ loc' = [loc EXCEPT !.currentDestRef = r.data.object.sha]
                    /\ mirrorRepo_goes("commitCreateTree")
                    /\ calls' = Append(calls,
                           PostTree(destToken, "manifest", 0, newTreeEntries))
    /\ UNCHANGED <<inputs, remote, clientOnly, logs, lists, window, caught>>

\* the new tree exists; the mirror commit is posted
mirrorRepo_commitCreateTree ==
    /\ variant = "server" /\ pc = "commitCreateTree"
    /\ \E fault \in Faulty :
        LET r == CreateTree(Awaiting.tree, fault)
        IN  /\ Spend(fault)
            /\ IF ~r.ok
               THEN /\ mirrorRepo_throw(ApiError("createTree", r.status))
                    /\ UNCHANGED <<calls, loc, dstTrees>>
               ELSE /\ dstTrees' = dstTrees \cup {r.data.sha}
                    /\ loc' = [loc EXCEPT !.newTree = r.data.sha]
                    /\ mirrorRepo_goes("commitCreateCommit")
                    /\ calls' = Append(calls, Call("createCommit", "dest", destToken, "",
                                                   loc.currentDestRef))
    /\ UNCHANGED <<inputs, dstRefs, dstCommits, dstBlobs, clientOnly, logs, lists, window,
                   caught>>

\* the mirror commit exists; the ref is force-updated to it
mirrorRepo_commitCreateCommit ==
    /\ variant = "server" /\ pc = "commitCreateCommit"
    /\ \E fault \in Faulty :
        LET r == CreateCommit("Mirror de", loc.newTree, Parents(loc.currentDestRef), fault)
        IN  /\ Spend(fault)
            /\ IF ~r.ok
               THEN /\ mirrorRepo_throw(ApiError("createCommit", r.status))
                    /\ UNCHANGED <<calls, loc, dstCommits>>
               ELSE /\ dstCommits' = Append(dstCommits,
                          [tree |-> loc.newTree, parents |-> Parents(loc.currentDestRef),
                           message |-> "Mirror de"])
                    /\ loc' = [loc EXCEPT !.newCommit = r.data.sha]
                    /\ mirrorRepo_goes("commitUpdateRef")
                    /\ calls' = Append(calls, Call("updateRef", "dest", destToken,
                                                   loc.dBranch, RefBody(r.data).sha))
    /\ UNCHANGED <<inputs, dstRefs, dstTrees, dstBlobs, clientOnly, logs, lists, window,
                   caught>>

\* the ref is moved; with more than one source branch the loop over the
\* branches starts, otherwise mirrorRepo returns
mirrorRepo_commitUpdateRef ==
    /\ variant = "server" /\ pc = "commitUpdateRef"
    /\ \E fault \in Faulty :
        LET r == UpdateRef(Awaiting.name, Awaiting.sha, fault)
        IN  /\ Spend(fault)
            /\ IF ~r.ok
               THEN /\ mirrorRepo_throw(ApiError("updateRef", r.status))
                    /\ UNCHANGED <<logs, calls, branchIdx, dstRefs>>
               ELSE /\ dstRefs' = [dstRefs EXCEPT ![Awaiting.name] = Awaiting.sha]
                    /\ IF Len(sourceBranches) > 1
                       THEN mirrorRepo_nextBranch(1,
                                Append(logs, Plain("shuffle", "Copiando branches adicionais...")))
                       ELSE mirrorRepo_return(logs)
    /\ UNCHANGED <<inputs, dstCommits, dstTrees, dstBlobs, clientOnly, sourceBranches, page,
                   blobs, newTreeEntries, i, branchBlobs, branchTreeEntries, loc, window,
                   caught>>

\* the tree of a secondary branch is listed: its first window starts, or with
\* no blob its (empty) tree is posted
mirrorRepo_brGetTree ==
    /\ variant = "server" /\ pc = "brGetTree"
    /\ \E fault \in Faulty :
        LET r == GetTree(sourceBranches[branchIdx].commit.sha, fault)
            found == Blobs(r.data.tree)
        IN  /\ Spend(fault)
            /\ IF ~r.ok
               THEN /\ mirrorRepo_catch(ApiError("getTree", r.status))
                    /\ UNCHANGED <<branchBlobs, branchTreeEntries, i, tasks, blobCalls>>
               ELSE /\ branchBlobs' = found
                    /\ branchTreeEntries' = <<>>
                    /\ i' = 0
                    /\ UNCHANGED <<logs, branchIdx, caught>>
                    /\ IF Len(found) > 0
                       THEN /\ mirrorRepo_goes("brCopy")
                            /\ StartWindow(tasks, branchIdx, found, 0, ServerWindow)
                            /\ UNCHANGED calls
                       ELSE /\ mirrorRepo_goes("brCreateTree")
                            /\ calls' = Append(calls,
                                   PostTree(destToken, "manifest", branchIdx, <<>>))
                            /\ UNCHANGED <<tasks, blobCalls>>
    /\ UNCHANGED <<inputs, remote, clientOnly, sourceBranches, page, blobs, newTreeEntries,
                   loc, results, copied, overtook>>

\* the tree of the branch exists; the branch commit is posted, its parent the
\* mirror commit of the default branch
mirrorRepo_brCreateTree ==
    /\ variant = "server" /\ pc = "brCreateTree"
    /\ \E fault \in Faulty :
        LET r == CreateTree(Awaiting.tree, fault)
        IN  /\ Spend(fault)
            /\ IF ~r.ok
               THEN /\ mirrorRepo_catch(ApiError("createTree", r.status))
                    /\ UNCHANGED <<loc, dstTrees>>
               ELSE /\ dstTrees' = dstTrees \cup {r.data.sha}
                    /\ loc' = [loc EXCEPT !.bTree = r.data.sha]
                    /\ mirrorRepo_goes("brCreateCommit")
                    /\ calls' = Append(calls, Call("createCommit", "dest", destToken,
                                                   BranchName, loc.newCommit))
                    /\ UNCHANGED <<logs, branchIdx, caught>>
    /\ UNCHANGED <<inputs, dstRefs, dstCommits, dstBlobs, clientOnly, sourceBranches, page,
                   blobs, newTreeEntries, i, branchBlobs, branchTreeEntries, window>>

\* the branch commit exists; the ref of the branch is created
mirrorRepo_brCreateCommit ==
    /\ variant = "server" /\ pc = "brCreateCommit"
    /\ \E fault \in Faulty :
        LET r == CreateCommit("Mirror branch", loc.bTree, Parents(loc.newCommit), fault)
        IN  /\ Spend(fault)
            /\ IF ~r.ok
               THEN /\ mirrorRepo_catch(ApiError("createCommit", r.status))
                    /\ UNCHANGED <<loc, dstCommits>>
               ELSE /\ dstCommits' = Append(dstCommits,
                          [tree |-> loc.bTree, parents |-> Parents(loc.newCommit),
                           message |-> "Mirror branch"])
                    /\ loc' = [loc EXCEPT !.bCommit = r.data.sha]
                    /\ mirrorRepo_goes("brCreateRef")
                    /\ calls' = Append(calls, Call("createRef", "dest", destToken,
                                                   BranchName, RefBody(r.data).sha))
                    /\ UNCHANGED <<logs, branchIdx, caught>>
    /\ UNCHANGED <<inputs, dstRefs, dstTrees, dstBlobs, clientOnly, sourceBranches, page,
                   blobs, newTreeEntries, i, branchBlobs, branchTreeEntries, window>>

Copied(name) == Msg("shuffle", "Branch copiado", 0, 0, name)

\* the ref is created and the next branch follows; a refused creation is
\* caught on its own and answered with a force-update of the ref
mirrorRepo_brCreateRef_MirrorCommit ==
    /\ variant = "server" /\ pc = "brCreateRef"
    /\ \E fault \in Faulty :
        LET r == CreateRef(Awaiting.name, Awaiting.sha, fault)
        IN  /\ Spend(fault)
            /\ IF ~r.ok
               THEN /\ mirrorRepo_goes("brUpdateRef")
                    /\ calls' = Append(calls, Call("updateRef", "dest", destToken,
                                                   BranchName, loc.newCommit))
                    /\ UNCHANGED <<logs, branchIdx, dstRefs>>
               ELSE /\ dstRefs' = [r2 \in DOMAIN dstRefs \cup {Awaiting.name} |->
                                      IF r2 = Awaiting.name THEN Awaiting.sha
                                      ELSE dstRefs[r2]]
                    /\ mirrorRepo_nextBranch(branchIdx + 1, Append(logs, Copied(BranchName)))
    /\ UNCHANGED <<inputs, dstCommits, dstTrees, dstBlobs, clientOnly, sourceBranches, page,
                   blobs, newTreeEntries, i, branchBlobs, branchTreeEntries, loc, window,
                   caught>>

mirrorRepo_brCreateRef_NoFallback ==
    /\ variant = "server" /\ pc = "brCreateRef"
    /\ \E fault \in Faulty :
        LET r == CreateRef(Awaiting.name, Awaiting.sha, fault)
        IN  /\ Spend(fault)
            /\ IF ~r.ok
               THEN /\ mirrorRepo_catch(ApiError("createRef", r.status))
                    /\ UNCHANGED dstRefs
               ELSE /\ dstRefs' = [r2 \in DOMAIN dstRefs \cup {Awaiting.name} |->
                                      IF r2 = Awaiting.name THEN Awaiting.sha
                                      ELSE dstRefs[r2]]
                    /\ mirrorRepo_nextBranch(branchIdx + 1, Append(logs, Copied(BranchName)))
                    /\ UNCHANGED caught
    /\ UNCHANGED <<inputs, dstCommits, dstTrees, dstBlobs, clientOnly, sourceBranches, page,
                   blobs, newTreeEntries, i, branchBlobs, branchTreeEntries, loc, window>>

mirrorRepo_brCreateRef ==
    /\ variant = "server" /\ pc = "brCreateRef"
    /\ \E fault \in Faulty :
        LET r == CreateRef(Awaiting.name, Awaiting.sha, fault)
        IN  /\ Spend(fault)
            /\ IF ~r.ok
               THEN /\ mirrorRepo_goes("brUpdateRef")
                    /\ calls' = Append(calls, Call("updateRef", "dest", destToken,
                                                   BranchName, Awaiting.sha))
                    /\ UNCHANGED <<logs, branchIdx, dstRefs>>
               ELSE /\ dstRefs' = [r2 \in DOMAIN dstRefs \cup {Awaiting.name} |->
                                      IF r2 = Awaiting.name THEN Awaiting.sha
                                      ELSE dstRefs[r2]]
                    /\ mirrorRepo_nextBranch(branchIdx + 1, Append(logs, Copied(BranchName)))
    /\ UNCHANGED <<inputs, dstCommits, dstTrees, dstBlobs, clientOnly, sourceBranches, page,
                   blobs, newTreeEntries, i, branchBlobs, branchTreeEntries, loc, window,
                   caught>>

\* the existing ref is force-updated and the next branch follows
mirrorRepo_brUpdateRef_DeleteFirst ==
    /\ variant = "server" /\ pc = "brUpdateRef"
    /\ \E fault \in Faulty :
        LET r == UpdateRef(Awaiting.name, Awaiting.sha, fault)
        IN  /\ Spend(fault)
            /\ IF ~r.ok
               THEN /\ mirrorRepo_catch(ApiError("updateRef", r.status))
                    /\ dstRefs' = Drop(dstRefs, {Awaiting.name})
               ELSE /\ dstRefs' = [dstRefs EXCEPT ![Awaiting.name] = Awaiting.sha]
                    /\ mirrorRepo_nextBranch(branchIdx + 1, Append(logs, Copied(BranchName)))
                    /\ UNCHANGED caught
    /\ UNCHANGED <<inputs, dstCommits, dstTrees, dstBlobs, clientOnly, sourceBranches, page,
                   blobs, newTreeEntries, i, branchBlobs, branchTreeEntries, loc, window>>

mirrorRepo_brUpdateRef ==
    /\ variant = "server" /\ pc = "brUpdateRef"
    /\ \E fault \in Faulty :
        LET r == UpdateRef(Awaiting.name, Awaiting.sha, fault)
        IN  /\ Spend(fault)
            /\ IF ~r.ok
               THEN /\ mirrorRepo_catch(ApiError("updateRef", r.status))
                    /\ UNCHANGED dstRefs
               ELSE /\ dstRefs' = [dstRefs EXCEPT ![Awaiting.name] = Awaiting.sha]
                    /\ mirrorRepo_nextBranch(branchIdx + 1, Append(logs, Copied(BranchName)))
                    /\ UNCHANGED caught
    /\ UNCHANGED <<inputs, dstCommits, dstTrees, dstBlobs, clientOnly, sourceBranches, page,
                   blobs, newTreeEntries, i, branchBlobs, branchTreeEntries, loc, window>>

\* the wrapper resumes with the answer of the edge function: it throws on an
\* invocation error or an unsuccessful answer, and otherwise replays the
\* server's log array into the log sink
mirrorRepo_replay ==
    /\ variant = "server" /\ uiPc = "running" /\ promise.state = "pending"
    /\ response.status # 0
    /\ IF response.status = 200 /\ response.success
       THEN /\ sink' = sink \o [k \in 1..Len(response.logs) |->
                                   Entry(response.logs[k], parseIcon(response.logs[k]))]
            /\ promise' = [state |-> "resolved", reason |-> NoError]
       ELSE /\ \E viaError \in BOOLEAN :
                promise' = [state |-> "rejected",
                            reason |-> IF viaError
                                       THEN [kind |-> "non-2xx status code",
                                             status |-> response.status, op |-> "invoke"]
                                       ELSE response.error]
            /\ UNCHANGED sink
    /\ UNCHANGED <<inputs, remote, faults, uiPc, response, pc, error, logs, locals, window,
                   calls, caught>>

(***************************************************************************)
(* handleClone (part_001) and the wrapper mirrorRepo (part_000).           *)
(***************************************************************************)
\* the wrapper up to its await: one log entry, then the edge function is invoked
mirrorRepo_invoke ==
    /\ sink' = <<Info("Iniciando mirror via servidor...")>>
    /\ pc' = "request"
    /\ UNCHANGED <<remote, faults, promise, error, locals, window, calls, serverOnly>>

\* handleClone: setLogs([]), then the mirror operation runs to its first await
handleClone ==
    /\ uiPc = "idle"
    /\ uiPc' = "running"
    /\ IF variant = "client" THEN cloneRepo_start ELSE mirrorRepo_invoke
    /\ UNCHANGED inputs

\* err.message as the log sink shows it
ErrorMsg(err) == Msg("", err.kind, err.status, 0, err.op)

\* handleClone's catch and finally: the rejection becomes an error entry
handleClone_catch_Silent ==
    /\ uiPc = "running" /\ promise.state = "rejected"
    /\ uiPc' = "settled"
    /\ UNCHANGED <<inputs, remote, faults, sink, promise, response, pc, error, logs,
                   locals, window, calls, caught>>

handleClone_catch ==
    /\ uiPc = "running" /\ promise.state = "rejected"
    /\ sink' = Append(sink, Entry(ErrorMsg(promise.reason), "error"))
    /\ uiPc' = "settled"
    /\ UNCHANGED <<inputs, remote, faults, promise, response, pc, error, logs, locals,
                   window, calls, caught>>

\* handleClone's finally after the mirror operation returned
handleClone_finally ==
    /\ uiPc = "running" /\ promise.state = "resolved"
    /\ uiPc' = "settled"
    /\ UNCHANGED <<inputs, remote, faults, sink, promise, response, pc, error, logs,
                   locals, window, calls, caught>>

\* a run is over: the page is idle again with the log of the finished run,
\* the locals of the finished call are gone, and the destination as the run
\* left it is what the next run starts from
Outcome ==
    [refs |-> dstRefs,
     files |-> [b \in DOMAIN dstRefs |->
                  {<<e.path, e.sha>> : e \in dstCommits[dstRefs[b]].tree}],
     caught |-> caught]

handleClone_again ==
    /\ uiPc = "settled" /\ pc = "done"
    /\ DOMAIN tasks = {}
    /\ Len(earlier) + 1 < MaxRuns
    /\ earlier' = Append(earlier, Outcome)
    /\ dstRepo' = [dstRepo EXCEPT !.priorCommits = Len(dstCommits),
                                  !.priorRefs = DOMAIN dstRefs]
    /\ uiPc' = "idle"
    /\ promise' = Pending
    /\ response' = NoResponse
    /\ pc' = "idle"
    /\ error' = NoError
    /\ logs' = <<>>
    /\ sourceBranches' = <<>>
    /\ page' = 1
    /\ blobs' = <<>>
    /\ newTreeEntries' = <<>>
    /\ i' = 0
    /\ branchIdx' = 0
    /\ branchBlobs' = <<>>
    /\ branchTreeEntries' = <<>>
    /\ loc' = NoLocals
    /\ tasks' = EmptyFn
    /\ results' = EmptyFn
    /\ blobCalls' = EmptyFn
    /\ copied' = {}
    /\ overtook' = FALSE
    /\ calls' = <<>>
    /\ caught' = <<>>
    /\ UNCHANGED <<variant, sourceUrl, destUrl, sourceToken, destToken, srcRepo, remote,
                   faults, sink>>

TaskKeys == DOMAIN tasks

Next ==
    \/ handleClone
    \/ handleClone_catch
    \/ handleClone_finally
    \/ cloneRepo_validateSource
    \/ cloneRepo_validateDest
    \/ cloneRepo_wipeGetRef
    \/ cloneRepo_wipeCreateTree
    \/ cloneRepo_wipeCreateCommit
    \/ cloneRepo_wipeUpdateRef
    \/ cloneRepo_getTree
    \/ \E t \in TaskKeys : cloneRepo_getBlob(t)
    \/ \E t \in TaskKeys : cloneRepo_createBlob(t)
    \/ cloneRepo_commitGetRef
    \/ cloneRepo_commitCreateTree
    \/ cloneRepo_commitCreateCommit
    \/ cloneRepo_commitUpdateRef
    \/ serve
    \/ mirrorRepo_replay
    \/ mirrorRepo_validateSource
    \/ mirrorRepo_validateDest
    \/ mirrorRepo_listBranches
    \/ mirrorRepo_getTree
    \/ mirrorRepo_wipeGetRef
    \/ mirrorRepo_wipeCreateTree
    \/ mirrorRepo_wipeCreateCommit
    \/ mirrorRepo_wipeUpdateRef
    \/ \E t \in TaskKeys : mirrorRepo_getBlob(t)
    \/ \E t \in TaskKeys : mirrorRepo_createBlob(t)
    \/ mirrorRepo_commitGetRef
    \/ mirrorRepo_commitCreateTree
    \/ mirrorRepo_commitCreateCommit
    \/ mirrorRepo_commitUpdateRef
    \/ mirrorRepo_brGetTree
    \/ mirrorRepo_brCreateTree
    \/ mirrorRepo_brCreateCommit
    \/ mirrorRepo_brCreateRef
    \/ mirrorRepo_brUpdateRef
    \/ handleClone_again

Spec == Init /\ [][Next]_vars

(***************************************************************************)
(* What the claims speak of.                                               *)
(***************************************************************************)
Finished == pc \in {"done", "failed", "refused"}

DestWrites == {"createTree", "createCommit", "updateRef", "createRef"}

RefMoves == {"updateRef", "createRef"}

\* the files of a source listing and of a destination branch: path and content
\* (the blob id is the hash of the content)
SrcFiles(key) == {<<e.path, e.sha>> : e \in Range(Blobs(srcRepo.trees[key]))}

DstFiles(branch) == {<<e.path, e.sha>> : e \in dstCommits[dstRefs[branch]].tree}

\* the commits posted in this run
MadeInRun == (dstRepo.priorCommits + 1)..Len(dstCommits)

\* the blob list of branch b of a copy (0: the default branch)
ListOf(b) ==
    IF b = 0 THEN Blobs(srcRepo.trees[srcRepo.default_branch])
    ELSE Blobs(srcRepo.trees[sourceBranches[b].commit.sha])

\* the tasks that threw
Thrown == {t \in DOMAIN blobCalls : t \notin DOMAIN tasks /\ t \notin copied}

(***************************************************************************)
(* C1.  Visibility gate: when the source or the destination reports        *)
(* private, no tree, commit or ref is written and no blob is fetched or    *)
(* posted, and the run fails with the visibility error.                    *)
(***************************************************************************)
C1_VisibilityGate ==
    (srcRepo.private \/ dstRepo.private) =>
        /\ \A k \in 1..Len(calls) : calls[k].op \notin DestWrites
        /\ DOMAIN blobCalls = {}
        /\ pc # "done"
        /\ pc = "failed" => error = PrivateError(error.op)

(***************************************************************************)
(* C2.  Every destination ref points at a commit the destination has, and  *)
(* every update-ref or create-ref call names a commit that a create-commit *)
(* call of this run has already made.                                      *)
(***************************************************************************)
C2_RefsNameMadeCommits ==
    /\ \A b \in DOMAIN dstRefs : dstRefs[b] \in 1..Len(dstCommits)
    /\ \A k \in 1..Len(calls) : calls[k].op \in RefMoves => calls[k].sha \in MadeInRun

C2_Witness ==
    /\ pc = "done"
    /\ \E k \in 1..Len(calls) : calls[k].op = "createRef"
    /\ \E k \in 1..Len(calls) : calls[k].op = "updateRef" /\ calls[k].name = loc.dBranch
    /\ \E b \in DOMAIN dstRefs : dstRefs[b] = loc.bCommit /\ loc.bCommit \in MadeInRun

(***************************************************************************)
(* C3.  A manifest is posted as a tree only when every blob of its branch  *)
(* has been fetched and posted: it has one entry per blob of the branch,   *)
(* each posted at the destination.  A branch with a task that threw gets   *)
(* no tree; a commit follows only a posted tree, a ref move only a commit. *)
(***************************************************************************)
C3_OnlyWholeManifests ==
    /\ \A k \in 1..Len(calls) :
          (calls[k].op = "createTree" /\ calls[k].name = "manifest") =>
              LET b == calls[k].sha
                  list == ListOf(b)
              IN  /\ Len(calls[k].tree) = Len(list)
                  /\ \A j \in 1..Len(list) :
                        /\ <<b, j>> \in copied
                        /\ calls[k].tree[j].path = list[j].path
                        /\ calls[k].tree[j].sha \in dstBlobs
    /\ \A t \in Thrown, k \in 1..Len(calls) :
          ~(calls[k].op = "createTree" /\ calls[k].name = "manifest" /\ calls[k].sha = t[1])
    /\ \A k \in 1..Len(calls) :
          /\ calls[k].op = "createCommit" => (k > 1 /\ calls[k - 1].op = "createTree")
          /\ calls[k].op = "createRef" => (k > 1 /\ calls[k - 1].op = "createCommit")
          /\ calls[k].op = "updateRef" =>
                (k > 1 /\ calls[k - 1].op \in {"createCommit", "createRef"})

C3_Witness ==
    /\ \E t \in Thrown : \E u \in copied : u[1] = t[1]
    /\ \E k \in 1..Len(calls) : calls[k].op = "createTree" /\ calls[k].name = "manifest"
                                /\ calls[k].tree # <<>>

(***************************************************************************)
(* C4.  At Done the destination's default branch holds exactly the files   *)
(* of the source's default branch, by path and content.                    *)
(***************************************************************************)
C4_DefaultBranchMirrored ==
    pc = "done" =>
        /\ loc.dBranch \in DOMAIN dstRefs
        /\ DstFiles(loc.dBranch) = SrcFiles(srcRepo.default_branch)

(***************************************************************************)
(* C5.  At Done without a caught branch, every branch of the source has a  *)
(* destination ref of its name holding exactly the files of that branch.   *)
(***************************************************************************)
C5_EveryBranchMirrored ==
    (pc = "done" /\ caught = <<>>) =>
        \A k \in 1..Len(srcRepo.branches) :
            LET br == srcRepo.branches[k]
            IN  /\ br.name \in DOMAIN dstRefs
                /\ DstFiles(br.name) = SrcFiles(br.commit.sha)

(***************************************************************************)
(* C6.  Secondary-branch isolation: a failure inside the loop over the     *)
(* branches never fails the run; at Done every branch that was not caught  *)
(* has its ref at a commit of exactly its files whose parent is the mirror *)
(* commit, and the server's log and, after the replay, the log sink hold   *)
(* one warn entry naming each caught branch and none naming another.       *)
(***************************************************************************)
Secondary == {k \in 1..Len(sourceBranches) : sourceBranches[k].name # loc.sBranch}

Count(seq, Test(_)) == Cardinality({k \in 1..Len(seq) : Test(seq[k])})

C6_BranchIsolation ==
    /\ branchIdx > 0 => pc # "failed"
    /\ (variant = "server" /\ pc = "done") =>
          \A k \in Secondary :
              LET br == sourceBranches[k]
                  Warns(m) == m.icon = "warning" /\ m.name = br.name
                  Shown(e) == e.type = "warn" /\ e.msg.name = br.name
                  failed == br.name \in Range(caught)
              IN  /\ Count(logs, Warns) = IF failed THEN 1 ELSE 0
                  /\ (uiPc = "settled" /\ promise.state = "resolved") =>
                        Count(sink, Shown) = IF failed THEN 1 ELSE 0
                  /\ ~failed =>
                        /\ br.name \in DOMAIN dstRefs
                        /\ DstFiles(br.name) = SrcFiles(br.commit.sha)
                        /\ dstCommits[dstRefs[br.name]].parents = <<loc.newCommit>>

C6_Witness ==
    /\ pc = "done" /\ uiPc = "settled"
    /\ caught = <<"dev">>
    /\ "c_master" \in DOMAIN srcRepo.trees
    /\ "master" \in DOMAIN dstRefs
    /\ DstFiles("master") = SrcFiles("c_master")

(***************************************************************************)
(* C7.  Before the loop over the branches every failure is fatal: a call   *)
(* that fails while the main flow awaits it, or a task of the awaited      *)
(* window that throws, ends the run in Failed with the error of that call; *)
(* a failed run issues no further main-flow call and starts no task; a run *)
(* that fails while validating has written nothing to the destination.     *)
(***************************************************************************)
FatalPcs ==
    {"validateSrc", "validateDst", "listBranches", "getTree", "wipeGetRef",
     "wipeCreateTree", "wipeCreateCommit", "wipeUpdateRef", "copy", "commitGetRef",
     "commitCreateTree", "commitCreateCommit", "commitUpdateRef"}

C7_Step ==
    /\ (pc \in FatalPcs /\ faults' < faults) =>
          /\ pc' = "failed"
          /\ error'.status = 500
    /\ (pc \in FatalPcs /\ pc' = "failed" /\ error'.kind = "GitHub API") =>
          error'.op = IF pc = "copy"
                      THEN (IF \E t \in DOMAIN tasks : tasks[t].phase = "fetching"
                                                        /\ t \notin DOMAIN tasks'
                            THEN "getBlob" ELSE "createBlob")
                      ELSE Awaiting.op
    /\ pc = "failed" =>
          /\ pc' = "failed"
          /\ error' = error
          /\ calls' = calls
          /\ DOMAIN blobCalls' = DOMAIN blobCalls
          /\ <<dstRefs, dstCommits, dstTrees>>' = <<dstRefs, dstCommits, dstTrees>>
    /\ (pc \in {"idle", "request", "validateSrc", "validateDst"} /\ pc' = "failed") =>
          /\ \A k \in 1..Len(calls') : calls'[k].op \notin DestWrites
          /\ DOMAIN blobCalls' = {}

C7_FatalBeforeBranches == [][C7_Step]_vars

C7_Witness ==
    /\ pc = "failed"
    /\ error = ApiError("createTree", 500)
    /\ Awaiting.name = "manifest"
    /\ dstRefs[loc.dBranch] = loc.emptyCommit

(***************************************************************************)
(* C8.  At most W tasks are in flight (5 client-side, 10 server-side), and *)
(* all tasks in flight belong to one window of one branch.                 *)
(***************************************************************************)
W == IF variant = "client" THEN ClientWindow ELSE ServerWindow

WindowOf(t) == <<t[1], (t[2] - 1) \div W>>

C8_OneWindowInFlight ==
    /\ Cardinality(InFlight) <= W
    /\ \A t, u \in InFlight : WindowOf(t) = WindowOf(u)

(***************************************************************************)
(* C9.  The progress lines of the default-branch copy of N blobs: line k   *)
(* reports min(k*W, N) of N, the counts increase strictly, and once the    *)
(* copy is over there are ceil(N/W) lines, the last reporting N of N.      *)
(***************************************************************************)
ProgressLines ==
    IF uiPc = "idle" THEN <<>>
    ELSE IF variant = "client"
    THEN LET shown == SelectSeq(sink, LAMBDA e : e.msg.text = "Copiados n/m arquivos...")
         IN  [k \in 1..Len(shown) |-> shown[k].msg]
    ELSE SelectSeq(logs, LAMBDA m : m.text = "n/m arquivos copiados")

AfterCopy ==
    {"commitGetRef", "commitCreateTree", "commitCreateCommit", "commitUpdateRef",
     "brGetTree", "brCopy", "brCreateTree", "brCreateCommit", "brCreateRef",
     "brUpdateRef", "done"}

C9_ProgressLines ==
    LET lines == ProgressLines
        N == Len(blobs)
    IN  /\ \A k \in 1..Len(lines) : lines[k].n = Min(k * W, N) /\ lines[k].m = N
        /\ \A k \in 1..(Len(lines) - 1) : lines[k].n < lines[k + 1].n
        /\ pc \in AfterCopy =>
              /\ Len(lines) = (N + W - 1) \div W
              /\ N > 0 => lines[Len(lines)].n = N

C9_Witness ==
    /\ variant = "server" /\ pc = "done"
    /\ Len(blobs) > ServerWindow
    /\ Len(ProgressLines) > 1

(***************************************************************************)
(* C10.  As claimed: an error entry is in the log sink by the time the     *)
(* promise of the mirror operation is rejected, and the log of a finished  *)
(* run ends in a success summary or in an error entry.                     *)
(***************************************************************************)
IsSummary(e) ==
    e.msg.text \in {"Mirror concluido com sucesso!",
                    "Resumo: n arquivos, m branch(es) copiado(s)"}

C10_ErrorBeforeRejection ==
    /\ promise.state = "rejected" => \E k \in 1..Len(sink) : sink[k].type = "error"
    /\ uiPc = "settled" =>
          /\ sink # <<>>
          /\ IsSummary(sink[Len(sink)]) \/ sink[Len(sink)].type = "error"

(***************************************************************************)
(* C10, amended.  The mirror operation delivers no error entry: when its   *)
(* promise is rejected the sink holds none, and handleClone then appends   *)
(* exactly one, carrying the rejection.  The log of a finished run ends in *)
(* that error entry, or after the success line in the summary line         *)
(* (server-side) or in the warn-severity note (client-side).               *)
(***************************************************************************)
C10_CallerLogsTheError ==
    LET errors == {k \in 1..Len(sink) : sink[k].type = "error"}
        n == Len(sink)
    IN  /\ (promise.state = "rejected" /\ uiPc = "running") => errors = {}
        /\ (promise.state = "rejected" /\ uiPc = "settled") =>
              /\ errors = {n}
              /\ sink[n].msg = ErrorMsg(promise.reason)
        /\ (promise.state = "resolved" /\ uiPc = "settled") =>
              /\ errors = {}
              /\ n >= 2
              /\ sink[n - 1] = Entry(Plain("check", "Mirror concluido com sucesso!"),
                                     "success")
              /\ IF variant = "server"
                 THEN sink[n].type = "info" /\ IsSummary(sink[n])
                 ELSE sink[n].type = "warn"
        /\ uiPc = "settled" => promise.state # "pending"

C10_Witness ==
    /\ uiPc = "settled"
    /\ promise.state = "rejected"
    /\ pc = "failed"
    /\ Len(sink) > 2

(***************************************************************************)
(* C11.  When a run has failed and handleClone has settled, every log line *)
(* the run produced before the abort has been delivered to the log sink,   *)
(* in the order of production (server-side: the lines of the logs array).  *)
(***************************************************************************)
C11_LogsReachCaller ==
    (variant = "server" /\ uiPc = "settled" /\ promise.state = "rejected") =>
        LET shown == SelectSeq(sink, LAMBDA e : e.msg \in Range(logs))
        IN  /\ Len(shown) = Len(logs)
            /\ \A k \in 1..Len(logs) : shown[k].msg = logs[k]

(***************************************************************************)
(* C12.  Every manifest submitted to create-tree has exactly one entry per *)
(* blob entry of the source listing it was copied from and none for a      *)
(* tree-kind entry; the entry of a blob carries the blob's path and the id *)
(* the upload of that blob's own content returned.                         *)
(***************************************************************************)
\* the recursive listing of the source the copy of branch b started from
SourceListing(b) ==
    IF b = 0 THEN srcRepo.trees[srcRepo.default_branch]
    ELSE srcRepo.trees[sourceBranches[b].commit.sha]

Manifests == {k \in 1..Len(calls) : calls[k].op = "createTree" /\ calls[k].name = "manifest"}

C12_ManifestMatchesBlobs ==
    \A c \in Manifests :
        LET listing == SourceListing(calls[c].sha)
            manifest == calls[c].tree
            At(path) == {k \in 1..Len(manifest) : manifest[k].path = path}
        IN  /\ Len(manifest) = Cardinality({k \in 1..Len(listing) : listing[k].type = "blob"})
            /\ \A k \in 1..Len(manifest) : manifest[k].type = "blob"
            /\ \A k \in 1..Len(listing) :
                  IF listing[k].type = "blob"
                  THEN /\ Cardinality(At(listing[k].path)) = 1
                       /\ \A n \in At(listing[k].path) :
                             manifest[n].sha = ShaOf(BlobContent(listing[k].sha).content)
                  ELSE At(listing[k].path) = {}

C12_Witness ==
    /\ pc = "done"
    /\ \E c \in Manifests :
          /\ calls[c].sha > 0
          /\ Len(calls[c].tree) >= 2
          /\ \E k \in 1..Len(SourceListing(calls[c].sha)) :
                SourceListing(calls[c].sha)[k].type = "tree"

(***************************************************************************)
(* C13.  As claimed: at Done no head written by the run has an ancestor    *)
(* commit that was at the destination before the run.                      *)
(***************************************************************************)
RECURSIVE Ancestors(_)
Ancestors(c) ==
    LET up == Range(dstCommits[c].parents)
    IN  up \cup UNION {Ancestors(q) : q \in up}

WrittenHeads == {dstRefs[b] : b \in DOMAIN dstRefs} \cap MadeInRun

C13_NoAncestorFromBefore ==
    pc = "done" =>
        \A h \in WrittenHeads : Ancestors(h) \cap (1..dstRepo.priorCommits) = {}

(***************************************************************************)
(* C13, amended.  At Done every head written by the run descends from the  *)
(* head the wiped branch had before the run: the mirror commit has the     *)
(* wipe's empty commit as its sole parent, the empty commit has the prior  *)
(* head as its sole parent, and a replicated secondary branch's commit has *)
(* the mirror commit as its sole parent.                                   *)
(***************************************************************************)
C13_HeadsDescendFromPriorHead ==
    pc = "done" =>
        /\ loc.destRef \in 1..dstRepo.priorCommits
        /\ dstCommits[loc.emptyCommit].parents = <<loc.destRef>>
        /\ dstCommits[loc.newCommit].parents = <<loc.emptyCommit>>
        /\ WrittenHeads # {}
        /\ \A h \in WrittenHeads :
              /\ h = loc.newCommit \/ dstCommits[h].parents = <<loc.newCommit>>
              /\ loc.destRef \in Ancestors(h)

C13_Witness ==
    /\ pc = "done"
    /\ Cardinality(WrittenHeads) >= 2
    /\ \A h \in WrittenHeads : loc.destRef \in Ancestors(h)

(***************************************************************************)
(* C14.  The summary line at Done reports the number of blobs copied over  *)
(* all branches (the default branch and every replicated secondary branch) *)
(* and the number of branches of the source.                               *)
(***************************************************************************)
Replicated == {0} \cup {k \in Secondary : sourceBranches[k].name \notin Range(caught)}

TotalBlobs == Cardinality({<<b, k>> : b \in Replicated, k \in 1..BigBlobs} \cap
                          {t \in copied : t[2] <= Len(ListOf(t[1]))})

C14_SummaryCounts ==
    (variant = "server" /\ pc = "done") =>
        LET summary == logs[Len(logs)]
        IN  /\ summary.n = TotalBlobs
            /\ summary.m = Len(srcRepo.branches)

(***************************************************************************)
(* C15.  As claimed, over the main-flow calls in issue order (a call of    *)
(* the main flow is issued only when the call before it has succeeded):    *)
(* both validations come before the wipe, the wipe's force-update comes    *)
(* before the listing of the source default tree, the listing is back      *)
(* before a blob of the default branch is copied, and the default-branch   *)
(* commit and its ref update come before the listing of a secondary        *)
(* branch.                                                                 *)
(***************************************************************************)
Pos(op) == {k \in 1..Len(calls) : calls[k].op = op}

FirstOf(op) == {k \in Pos(op) : \A j \in Pos(op) : k <= j}

Below(op, k) == Cardinality({j \in Pos(op) : j < k})

DefaultListing == {k \in Pos("getTree") : calls[k].name = srcRepo.default_branch}

BranchListings == Pos("getTree") \ DefaultListing

DefaultTasks == {t \in DOMAIN blobCalls : t[1] = 0}

ValidatedBeforeWipe == \A k \in FirstOf("getRef") : Below("getRepo", k) = 2

ListedBeforeCopy == DefaultTasks # {} => (DefaultListing # {} /\ pc # "getTree")

CommittedBeforeBranches ==
    \A k \in BranchListings : Below("createCommit", k) >= 2 /\ Below("updateRef", k) >= 2

C15_StatesInListedOrder ==
    /\ ValidatedBeforeWipe
    /\ \A k \in DefaultListing : Below("updateRef", k) >= 1
    /\ ListedBeforeCopy
    /\ CommittedBeforeBranches

(***************************************************************************)
(* C15, amended.  Both validations come before the wipe; client-side the   *)
(* wipe's force-update comes before the listing of the source default      *)
(* tree, server-side the branches and the default tree are listed before   *)
(* the wipe reads the destination head; in both the listing is back and    *)
(* the wipe's force-update is done before a blob of the default branch is  *)
(* copied, and the default-branch commit and its ref update come before    *)
(* the listing of a secondary branch.                                      *)
(***************************************************************************)
C15_OrderOfEachVariant ==
    /\ ValidatedBeforeWipe
    /\ variant = "client" => \A k \in DefaultListing : Below("updateRef", k) >= 1
    /\ variant = "server" =>
          /\ \A k \in DefaultListing :
                Below("getRef", k) = 0 /\ Below("listBranches", k) >= 1
          /\ \A k \in FirstOf("getRef") : DefaultListing # {}
    /\ ListedBeforeCopy
    /\ DefaultTasks # {} => (Pos("updateRef") # {} /\ pc # "wipeUpdateRef")
    /\ CommittedBeforeBranches

C15_Witness ==
    /\ variant = "server" /\ pc = "done"
    /\ DefaultTasks # {}
    /\ BranchListings # {}
    /\ \A k \in DefaultListing : Below("getRef", k) = 0

Malformed(url) == url # UrlEmpty /\ ~parseRepoUrl(url).ok

C17_MalformedMakesNoCall ==
    (Malformed(sourceUrl) \/ Malformed(destUrl)) =>
        /\ calls = <<>>
        /\ pc # "done"
        /\ pc = "failed" => error = UrlError

(***************************************************************************)
(* C18.  As claimed: for a secondary branch create-ref is issued first,    *)
(* the force-update of the ref follows only when a ref of that name was at *)
(* the destination before the run, and once the branch has been handled    *)
(* the ref of that name is at the new branch commit.                       *)
(***************************************************************************)
\* the force-updates that follow a create-ref, and the create-refs that
\* have been answered
Fallbacks == {k \in Pos("updateRef") : k > 1 /\ calls[k - 1].op = "createRef"}

Answered(k) == k < Len(calls) \/ pc = "done"

C18_UpdateOnlyIfRefExisted ==
    /\ \A k \in Pos("createRef") : calls[k - 1].op = "createCommit"
    /\ \A k \in Fallbacks : calls[k].name \in dstRepo.priorRefs
    /\ \A k \in Pos("createRef") :
          (Answered(k) /\ (k + 1 \in Fallbacks => Answered(k + 1))) =>
              /\ calls[k].name \in DOMAIN dstRefs
              /\ dstRefs[calls[k].name] = calls[k].sha

(***************************************************************************)
(* C18, amended.  Create-ref is issued first, with the new branch commit;  *)
(* the force-update follows exactly when create-ref failed, whatever the   *)
(* reason, and names the same branch and commit.  It always follows when a *)
(* ref of that name was at the destination before the run.  When it        *)
(* follows although no such ref existed, it is refused and the branch is   *)
(* caught with no ref made.  A branch that is not caught ends with its ref *)
(* at the new branch commit.                                               *)
(***************************************************************************)
C18_UpdateWhenCreateFailed ==
    /\ \A k \in Pos("createRef") :
          /\ calls[k - 1].op = "createCommit"
          /\ calls[k].sha = Len(dstCommits) \/ calls[k].sha \in MadeInRun
    /\ \A k \in Fallbacks :
          /\ calls[k].name = calls[k - 1].name
          /\ calls[k].sha = calls[k - 1].sha
    /\ \A k \in Pos("createRef") :
          LET name == calls[k].name
              fallback == k + 1 \in Fallbacks
          IN  /\ (Answered(k) /\ name \in dstRepo.priorRefs) => fallback
              /\ (Answered(k) /\ ~fallback) =>
                    /\ name \notin dstRepo.priorRefs
                    /\ name \in DOMAIN dstRefs
                    /\ dstRefs[name] = calls[k].sha
              /\ (fallback /\ Answered(k + 1)) =>
                    IF name \in dstRepo.priorRefs
                    THEN name \in Range(caught) \/ dstRefs[name] = calls[k].sha
                    ELSE /\ name \in Range(caught)
                         /\ name \notin DOMAIN dstRefs
                         /\ faults < MaxFaults
    /\ pc = "done" =>
          \A k \in Pos("createRef") :
              calls[k].name \notin Range(caught) =>
                  /\ calls[k].name \in DOMAIN dstRefs
                  /\ dstRefs[calls[k].name] = calls[k].sha

C18_Witness ==
    /\ pc = "done"
    /\ \E k \in Fallbacks :
          calls[k].name \notin dstRepo.priorRefs /\ calls[k].name \in Range(caught)
    /\ \E k \in Pos("createRef") :
          k + 1 \notin Fallbacks /\ dstRefs[calls[k].name] = calls[k].sha

(***************************************************************************)
(* C20.  The wipe issues, in this order and one after the other, the read  *)
(* of the destination branch head, the creation of an empty tree, the      *)
(* creation of a commit of that empty tree whose only parent is the head   *)
(* just read, and the force-update of the branch ref to that commit; the   *)
(* 'destination wiped' log entry appears in the step in which the          *)
(* force-update succeeds and not before.                                   *)
(***************************************************************************)
WipedLogged ==
    IF variant = "client"
    THEN \E k \in 1..Len(sink) : sink[k] = Success("Conteudo do destino removido")
    ELSE \E k \in 1..Len(logs) : logs[k] = Plain("check", "Destino limpo")

C20_Calls ==
    \A g \in FirstOf("getRef") :
        /\ calls[g].side = "dest" /\ calls[g].name = loc.dBranch
        /\ \A k \in 1..(g - 1) : calls[k].op \notin DestWrites
        /\ Len(calls) >= g + 1 =>
              /\ calls[g + 1].op = "createTree" /\ calls[g + 1].tree = <<>>
              /\ loc.destRef \in 1..dstRepo.priorCommits
        /\ Len(calls) >= g + 2 =>
              /\ calls[g + 2].op = "createCommit"
              /\ loc.emptyTree = {}
        /\ Len(calls) >= g + 3 =>
              /\ calls[g + 3].op = "updateRef"
              /\ calls[g + 3].name = loc.dBranch
              /\ calls[g + 3].sha = loc.emptyCommit
              /\ loc.emptyCommit \in MadeInRun
              /\ dstCommits[loc.emptyCommit].tree = {}
              /\ dstCommits[loc.emptyCommit].parents = <<loc.destRef>>
        /\ WipedLogged => (Len(calls) >= g + 3 /\ pc # "wipeUpdateRef")

C20_Step ==
    (~WipedLogged /\ WipedLogged') =>
        /\ pc = "wipeUpdateRef"
        /\ Awaiting.op = "updateRef"
        /\ dstRefs[loc.dBranch] = loc.destRef
        /\ dstRefs'[loc.dBranch] = loc.emptyCommit

C20_WipeInOrder == [](C20_Calls) /\ [][C20_Step]_vars

C20_Witness ==
    /\ WipedLogged
    /\ pc = "failed"
    /\ dstRefs[loc.dBranch] = loc.emptyCommit
    /\ dstCommits[loc.emptyCommit].tree = {}

(***************************************************************************)
(* C19.  As claimed: when a second run on the same source and destination  *)
(* reaches Done after a first run that reached Done, every destination     *)
(* branch has the same files as after the first run, and the branches are  *)
(* the same.                                                               *)
(***************************************************************************)
SameFilesAsBefore ==
    LET first == earlier[Len(earlier)]
    IN  /\ DOMAIN dstRefs = DOMAIN first.files
        /\ \A b \in DOMAIN dstRefs : DstFiles(b) = first.files[b]

MaxPushes == 1        \* pushes of the other writer in one session

Pushed == {c \in 1..Len(dstCommits) : dstCommits[c].message = "push"}

BeforeCommitted ==
    {"getTree", "copy", "commitGetRef", "commitCreateTree", "commitCreateCommit",
     "commitUpdateRef"}

otherWriter_push ==
    /\ uiPc = "running" /\ pc \in BeforeCommitted
    /\ WipedLogged
    /\ Cardinality(Pushed) < MaxPushes
    /\ dstCommits' = Append(dstCommits,
           [tree |-> OldTree, parents |-> <<dstRefs[dstRepo.default_branch]>>,
            message |-> "push"])
    /\ dstRefs' = [dstRefs EXCEPT ![dstRepo.default_branch] = Len(dstCommits) + 1]
    /\ dstTrees' = dstTrees \cup {OldTree}
    /\ dstBlobs' = dstBlobs \cup {e.sha : e \in OldTree}
    /\ UNCHANGED <<inputs, faults, front, pc, error, logs, locals, window, calls, caught>>

NextShared == Next \/ otherWriter_push

InitShared == Init /\ srcRepo # SrcBig /\ faults = 0

SpecShared == InitShared /\ [][NextShared]_vars

(***************************************************************************)
(* C21.  The mirror commit of the default branch has one parent, the head  *)
(* of the destination branch as read after the copy: the head the other    *)
(* writer left when it pushed after the wipe and before that read, and the *)
(* wipe's empty commit otherwise; the force-update that follows moves the  *)
(* ref to the mirror commit whatever the head is by then.                  *)
(***************************************************************************)
PushedInRun == Pushed \cap MadeInRun

C21_Head ==
    /\ (WipedLogged /\ pc \in BeforeCommitted) =>
          dstRefs[loc.dBranch] =
              IF PushedInRun = {} THEN loc.emptyCommit
              ELSE CHOOSE p \in PushedInRun : \A q \in PushedInRun : q <= p
    /\ loc.newCommit # 0 =>
          /\ dstCommits[loc.newCommit].parents = <<loc.currentDestRef>>
          /\ loc.currentDestRef \in PushedInRun \cup {loc.emptyCommit}
          /\ loc.currentDestRef # loc.destRef

C21_Step ==
    /\ (pc = "commitGetRef" /\ pc' = "commitCreateTree") =>
          loc'.currentDestRef = dstRefs[loc.dBranch]
    /\ (pc = "commitCreateCommit" /\ pc' = "commitUpdateRef") =>
          /\ loc'.newCommit = Len(dstCommits')
          /\ dstCommits'[loc'.newCommit].parents = <<loc.currentDestRef>>
    /\ (pc = "commitUpdateRef" /\ pc' \notin {"commitUpdateRef", "failed"}) =>
          /\ Awaiting.sha = loc.newCommit
          /\ dstRefs'[loc.dBranch] = loc.newCommit

C21_ParentIsRereadHead == [](C21_Head) /\ [][C21_Step]_vars

C21_Witness ==
    /\ pc = "done"
    /\ loc.currentDestRef \in PushedInRun
    /\ dstCommits[loc.newCommit].parents = <<loc.currentDestRef>>
    /\ dstCommits[loc.currentDestRef].parents = <<loc.emptyCommit>>
    /\ dstRefs[loc.dBranch] = loc.newCommit

(***************************************************************************)
(* C22.  Every commit made for a secondary branch has one parent, the      *)
(* mirror commit the run made before it for the default branch; at Done    *)
(* every head the run wrote is the mirror commit or descends from it; no   *)
(* call of the loop over the branches names the source's default branch;   *)
(* and the loop is entered only when the source has more than one branch.  *)
(***************************************************************************)
BranchCommits == {c \in MadeInRun : dstCommits[c].message = "Mirror branch"}

LoopEntered ==
    \/ branchIdx > 0
    \/ BranchListings # {}
    \/ \E k \in 1..Len(logs) : logs[k] = Plain("shuffle", "Copiando branches adicionais...")

C22_BranchCommitsOnMirrorCommit ==
    /\ \A c \in BranchCommits :
          /\ dstCommits[c].parents = <<loc.newCommit>>
          /\ loc.newCommit \in MadeInRun
          /\ loc.newCommit < c
          /\ dstCommits[loc.newCommit].message = "Mirror de"
    /\ pc = "done" =>
          \A h \in WrittenHeads : h = loc.newCommit \/ loc.newCommit \in Ancestors(h)
    /\ branchIdx > 0 => sourceBranches[branchIdx].name # loc.sBranch
    /\ \A k \in Pos("createCommit") \cup Pos("createRef") :
          calls[k].name # srcRepo.default_branch
    /\ \A k \in BranchListings :
          \E n \in 1..Len(srcRepo.branches) :
              /\ srcRepo.branches[n].commit.sha = calls[k].name
              /\ srcRepo.branches[n].name # srcRepo.default_branch
    /\ LoopEntered =>
          /\ Len(srcRepo.branches) > 1
          /\ Pos("updateRef") # {} /\ loc.newCommit # 0

C22_Witness ==
    /\ pc = "done"
    /\ Cardinality(BranchCommits) >= 2
    /\ Cardinality(WrittenHeads) >= 3
    /\ \A h \in WrittenHeads : h = loc.newCommit \/ loc.newCommit \in Ancestors(h)

(***************************************************************************)
(* C23.  No remote call is issued again: a task fetches its blob once and  *)
(* posts it once; a task that threw gets no further call, its branch gets  *)
(* no later window and no tree; no main-flow call equals an earlier one    *)
(* except the second read of the destination head; a step in which a call  *)
(* fails issues no call and starts no task, except that a failed           *)
(* create-ref is followed by the force-update of the same ref to the same  *)
(* commit and a caught branch by the listing of the next branch; and a     *)
(* copy that fails does so with the error of a task of the awaited window  *)
(* that threw in that step.                                                *)
(***************************************************************************)
C23_Once ==
    /\ \A t \in DOMAIN blobCalls :
          /\ blobCalls[t].getBlob = 1
          /\ blobCalls[t].createBlob <= 1
    /\ \A t \in Thrown :
          /\ \A c \in Manifests : calls[c].sha # t[1]
          /\ \A u \in DOMAIN blobCalls : u[1] = t[1] => WindowOf(u)[2] <= WindowOf(t)[2]
    /\ \A j, k \in 1..Len(calls) :
          (j < k /\ calls[j] = calls[k]) =>
              /\ calls[k].op = "getRef"
              /\ Cardinality({n \in Pos("getRef") : calls[n] = calls[k]}) = 2

C23_Step ==
    LET failing == pc' = "failed" \/ Len(caught') > Len(caught)
                   \/ (pc = "brCreateRef" /\ pc' = "brUpdateRef")
                   \/ faults' < faults
        gone == {t \in DOMAIN tasks : t \notin DOMAIN tasks' /\ t \notin copied'}
        OpOf(t) == IF tasks[t].phase = "fetching" THEN "getBlob" ELSE "createBlob"
    IN  /\ (failing /\ pc # "failed" /\ uiPc = "running") =>
              /\ blobCalls' = blobCalls
              /\ \/ calls' = calls
                 \/ /\ pc = "brCreateRef"
                    /\ calls' = Append(calls, Call("updateRef", "dest", destToken,
                                                   Awaiting.name, Awaiting.sha))
                 \/ /\ Len(caught') > Len(caught)
                    /\ Len(calls') = Len(calls) + 1
                    /\ calls'[Len(calls')].op = "getTree"
                    /\ \A k \in 1..Len(calls) : calls[k] # calls'[Len(calls')]
        /\ \A t \in gone : blobCalls'[t] = blobCalls[t]
        /\ (pc = "copy" /\ pc' = "failed") =>
              \E t \in gone \cap Awaited(W) :
                  error' = ApiError(OpOf(t), 500)
        /\ (pc = "brCopy" /\ Len(caught') > Len(caught)) =>
              \E t \in gone \cap Awaited(W) :
                  logs'[Len(logs')].n = 500 \/ logs'[Len(logs') - 2].n = 500

C23_NoRetry == [](C23_Once) /\ [][C23_Step]_vars

C23_Witness ==
    /\ pc = "done"
    /\ Thrown # {}
    /\ Fallbacks # {}
    /\ \E t \in Thrown : blobCalls[t].createBlob = 1

(***************************************************************************)
(* C24.  The log only grows during a run and follows the order of the      *)
(* operations: the 'destination wiped' entry is there only once the wipe's *)
(* force-update is answered, a 'branch copied' entry only once the ref of  *)
(* that branch is made, the 'mirror complete' entry only at Done; there is *)
(* one progress entry for each window whose tasks have all returned, of    *)
(* the default branch or of a secondary branch, and no other; server-side  *)
(* the log sink holds no entry of the server while the run is going on and *)
(* all of them, in the server's order, once a run that returned has        *)
(* settled.                                                                *)
(***************************************************************************)
\* the windows whose tasks have all returned: <<b, w>> is window w (from 0)
\* of the copy of branch b
Started == {t[1] : t \in DOMAIN blobCalls}

CompleteWindows ==
    {bw \in Started \X (0..(BigBlobs \div W)) :
        LET ks == {k \in 1..Len(ListOf(bw[1])) : (k - 1) \div W = bw[2]}
        IN  ks # {} /\ \A k \in ks : <<bw[1], k>> \in copied}

\* the log of the run: the server's array, or client-side the log sink
RunLog == IF variant = "server" THEN logs ELSE [k \in 1..Len(sink) |-> sink[k].msg]

Logged(m) == uiPc # "idle" /\ \E k \in 1..Len(RunLog) : RunLog[k] = m

RefMade(name) ==
    \E k \in Pos("createRef") :
        /\ calls[k].name = name
        /\ IF k + 1 \in Fallbacks
           THEN Answered(k + 1) /\ name \notin Range(caught)
           ELSE Answered(k)

IsPrefix(s, t) == Len(s) <= Len(t) /\ \A k \in 1..Len(s) : t[k] = s[k]

C24_Entries ==
    /\ WipedLogged =>
          \A g \in FirstOf("getRef") : Len(calls) >= g + 3 /\ pc # "wipeUpdateRef"
    /\ Len(ProgressLines) = Cardinality(CompleteWindows)
    /\ \A k \in 1..Len(sourceBranches) :
          Logged(Copied(sourceBranches[k].name)) => RefMade(sourceBranches[k].name)
    /\ Logged(Plain("check", "Mirror concluido com sucesso!")) => pc = "done"
    /\ (variant = "server" /\ uiPc = "running" /\ ~Finished) => Len(sink) = 1
    /\ (variant = "server" /\ uiPc = "settled" /\ pc = "done") =>
          /\ Len(sink) = Len(logs) + 1
          /\ \A k \in 1..Len(logs) : sink[k + 1].msg = logs[k]

C24_Step ==
    /\ pc' # "idle" => IsPrefix(logs, logs')
    /\ uiPc # "idle" => IsPrefix(sink, sink')

C24_LogInOperationOrder == [](C24_Entries) /\ [][C24_Step]_vars

(***************************************************************************)
(* The enumeration of the branches on its own: the edge function at its    *)
(* first request for a page of branches, over sources of 0 to MaxBranches  *)
(* branches.  The only step is the arrival of a page; the response of a    *)
(* request that was sent arrives (weak fairness).                          *)
(***************************************************************************)
MaxBranches == 250    \* branches of the sources of SpecBranches

SrcMany(n) ==
    [private |-> FALSE, default_branch |-> 1,
     branches |-> [k \in 1..n |-> Branch(k, k)],
     trees |-> EmptyFn]

InitBranches ==
    /\ variant = "server"
    /\ sourceUrl = UrlSrc /\ destUrl = UrlDst
    /\ sourceToken = "tS" /\ destToken = "tD"
    /\ \E n \in 0..MaxBranches : srcRepo = SrcMany(n)
    /\ dstRepo = [private |-> FALSE, default_branch |-> "main",
                  priorCommits |-> 1, priorRefs |-> {"main"}]
    /\ dstRefs = DstSame.refs
    /\ dstCommits = DstSame.commits
    /\ dstTrees = {OldTree}
    /\ dstBlobs = {e.sha : e \in OldTree}
    /\ faults = 0
    /\ uiPc = "running"
    /\ sink = <<Info("Iniciando mirror via servidor...")>>
    /\ promise = Pending
    /\ response = NoResponse
    /\ pc = "listBranches"
    /\ error = NoError
    /\ logs = <<Plain("magnifier", "Validando repositorio de origem..."),
                Msg("check", "Origem: (branch, visibilidade)", 0, 0, Visibility(FALSE)),
                Plain("magnifier", "Validando repositorio de destino..."),
                Msg("check", "Destino: (branch, visibilidade)", 0, 0, Visibility(FALSE)),
                Plain("clipboard", "Obtendo branches da origem...")>>
    /\ sourceBranches = <<>>
    /\ page = 1
    /\ blobs = <<>>
    /\ newTreeEntries = <<>>
    /\ i = 0
    /\ branchIdx = 0
    /\ branchBlobs = <<>>
    /\ branchTreeEntries = <<>>
    /\ loc = [NoLocals EXCEPT !.sFull = "o/src", !.sBranch = 1,
                              !.dFull = "o/dst", !.dBranch = "main"]
    /\ tasks = EmptyFn
    /\ results = EmptyFn
    /\ blobCalls = EmptyFn
    /\ copied = {}
    /\ overtook = FALSE
    /\ calls = <<Call("getRepo", "source", "tS", "", 0),
                 Call("getRepo", "dest", "tD", "", 0),
                 Call("listBranches", "source", "tS", "", 1)>>
    /\ caught = <<>>
    /\ earlier = <<>>

NextBranches == mirrorRepo_listBranches

SpecBranches == InitBranches /\ [][NextBranches]_vars /\ WF_vars(NextBranches)

(***************************************************************************)
(* C25.  The pages of branches are requested in the order 1, 2, ...; while *)
(* the loop runs every page received was full and sourceBranches holds the *)
(* branches of those pages; the loop ends at the first page that is empty  *)
(* or short, after N div 100 + 1 requests for a source of N branches, with *)
(* sourceBranches the source's branches, each once and in order; and the   *)
(* loop does end.                                                          *)
(***************************************************************************)
Requests == SelectSeq(calls, LAMBDA c : c.op = "listBranches")

C25_Pages ==
    LET N == Len(srcRepo.branches)
        n == Len(Requests)
    IN  /\ \A k \in 1..n : Requests[k].sha = k
        /\ page = n
        /\ n <= N \div PerPage + 1
        /\ (n - 1) * PerPage <= N
        /\ pc = "listBranches" =>
              sourceBranches = SubSeq(srcRepo.branches, 1, (n - 1) * PerPage)
        /\ pc # "listBranches" =>
              /\ pc = "getTree"
              /\ n = N \div PerPage + 1
              /\ N - (n - 1) * PerPage < PerPage
              /\ sourceBranches = srcRepo.branches
              /\ \A j, k \in 1..Len(sourceBranches) :
                    j # k => sourceBranches[j] # sourceBranches[k]

C25_EnumerationEnds == [](C25_Pages) /\ <>(pc = "getTree")

C25_Witness ==
    /\ pc = "getTree"
    /\ Len(srcRepo.branches) = 2 * PerPage
    /\ Len(Requests) = 3
    /\ Len(sourceBranches) = 2 * PerPage

(***************************************************************************)
(* C26.  Every call to the source repository (repository, branches, trees, *)
(* blobs) carries the source token and every call to the destination       *)
(* repository (repository, refs, trees, commits, blobs) the destination    *)
(* token, in the main flow and in the tasks of the windows.                *)
(***************************************************************************)
TokenOf(side) == IF side = "source" THEN sourceToken ELSE destToken

SourceOps == {"listBranches", "getTree"}

C26_TokenOfItsSide ==
    /\ sourceToken # destToken
    /\ \A k \in 1..Len(calls) :
          /\ calls[k].side \in {"source", "dest"}
          /\ calls[k].token = TokenOf(calls[k].side)
          /\ calls[k].op \in SourceOps => calls[k].side = "source"
          /\ calls[k].op \in DestWrites \cup {"getRef"} => calls[k].side = "dest"
          /\ calls[k].op = "getRepo" => calls[k].side = IF k = 1 THEN "source" ELSE "dest"
    /\ \A t \in DOMAIN blobCalls :
          LET sent == blobCalls[t].sent
          IN  /\ Len(sent) = blobCalls[t].getBlob + blobCalls[t].createBlob
              /\ \A k \in 1..Len(sent) :
                    /\ sent[k][1] = IF k = 1 THEN "source" ELSE "dest"
                    /\ sent[k][2] = TokenOf(sent[k][1])

C26_Witness ==
    /\ variant = "server" /\ pc = "done"
    /\ Pos("createRef") # {} /\ BranchListings # {}
    /\ \E t \in DOMAIN blobCalls :
          t[1] > 0 /\ blobCalls[t].sent = <<<<"source", "tS">>, <<"dest", "tD">>>>
    /\ \E k \in Pos("getTree") : calls[k].token = "tS"
    /\ \E k \in Pos("createRef") : calls[k].token = "tD"

(***************************************************************************)
(* C27.  Server-side, the progress entries that follow the start of the    *)
(* loop over the branches are one for each completed window of a secondary *)
(* branch, so that a replicated branch of N blobs has added ceil(N/W).     *)
(***************************************************************************)
LoopStart ==
    {k \in 1..Len(logs) : logs[k] = Plain("shuffle", "Copiando branches adicionais...")}

BranchProgress ==
    {k \in 1..Len(logs) : /\ logs[k].text = "n/m arquivos copiados"
                          /\ \E s \in LoopStart : s < k}

C27_BranchProgressLines ==
    variant = "server" =>
        /\ Cardinality(BranchProgress) =
              Cardinality({bw \in CompleteWindows : bw[1] > 0})
        /\ \A k \in Secondary :
              Logged(Copied(sourceBranches[k].name)) =>
                  Cardinality({bw \in CompleteWindows : bw[1] = k}) =
                      (Len(ListOf(k)) + W - 1) \div W

(***************************************************************************)
(* C28.  A secondary branch whose replication was caught leaves the ref of *)
(* its name as it was when its replication started: the step that catches  *)
(* the branch moves no ref, and a step of the replication that moves a ref *)
(* moves that of the branch alone and ends the replication with 'branch    *)
(* copied'.  So at any state the ref of a caught name is absent when the   *)
(* destination had none before the run, at its commit from before the run  *)
(* when it had one, and at the mirror commit when the name is that of the  *)
(* destination's default branch.                                           *)
(***************************************************************************)
BranchPcs ==
    {"brGetTree", "brCopy", "brCreateTree", "brCreateCommit", "brCreateRef",
     "brUpdateRef"}

C28_Refs ==
    \A k \in 1..Len(caught) :
        LET name == caught[k]
        IN  IF name = loc.dBranch
            THEN name \in DOMAIN dstRefs /\ dstRefs[name] = loc.newCommit
            ELSE IF name \in dstRepo.priorRefs
            THEN name \in DOMAIN dstRefs /\ dstRefs[name] \in 1..dstRepo.priorCommits
            ELSE name \notin DOMAIN dstRefs

C28_Step ==
    /\ Len(caught') > Len(caught) =>
          /\ pc \in BranchPcs
          /\ caught' = Append(caught, BranchName)
          /\ dstRefs' = dstRefs
    /\ (pc \in BranchPcs /\ dstRefs' # dstRefs) =>
          /\ caught' = caught
          /\ pc \in {"brCreateRef", "brUpdateRef"}
          /\ logs'[Len(logs) + 1] = Copied(BranchName)
          /\ \A b \in DOMAIN dstRefs : b # BranchName => dstRefs'[b] = dstRefs[b]
          /\ DOMAIN dstRefs' = DOMAIN dstRefs \cup {BranchName}
    /\ (pc \in BranchPcs /\ pc' \in BranchPcs /\ branchIdx' = branchIdx) =>
          dstRefs' = dstRefs

C28_CaughtBranchKeepsRef == [](C28_Refs) /\ [][C28_Step]_vars

C28_Witness ==
    /\ pc = "done"
    /\ \E k \in Fallbacks :
          /\ calls[k].name \in Range(caught)
          /\ calls[k].name \in dstRepo.priorRefs
          /\ calls[k].name # loc.dBranch
          /\ dstRefs[calls[k].name] \in 1..dstRepo.priorCommits

(***************************************************************************)
(* C29.  When the run has failed on the listing of the source's default    *)
(* tree, the destination is as before the run: no commit was made, no      *)
(* tree, commit or ref call was issued, and every ref is where it was.     *)
(***************************************************************************)
C29_TreeFailureLeavesDestination ==
    (pc = "failed" /\ error.op = "getTree") =>
        /\ MadeInRun = {}
        /\ \A k \in 1..Len(calls) : calls[k].op \notin DestWrites
        /\ DOMAIN dstRefs = dstRepo.priorRefs
        /\ \A b \in DOMAIN dstRefs : dstRefs[b] \in 1..dstRepo.priorCommits

(***************************************************************************)
(* C30.  Once the run has failed because a task of a copy window threw, no *)
(* step issues a remote call or creates a blob at the destination: the     *)
(* main flow issues no call, no task issues its upload, and no upload of a *)
(* task arrives at the destination.                                        *)
(***************************************************************************)
FailedInWindow == pc = "failed" /\ error.op \in {"getBlob", "createBlob"}

C30_Step ==
    FailedInWindow =>
        /\ calls' = calls
        /\ blobCalls' = blobCalls
        /\ dstBlobs' = dstBlobs

C30_NoCallAfterFailure == [][C30_Step]_vars

(***************************************************************************)
(* C31.  Every manifest submitted to create-tree lists one entry per blob  *)
(* entry of the source tree listing, in the order of the listing, each     *)
(* with the path of its listing entry and the id of that entry's uploaded  *)
(* content, in whatever order the tasks of the windows returned.  The      *)
(* manifest is a function of the listing alone, so two runs over the same  *)
(* listing that differ in completion order submit the same manifest.       *)
(***************************************************************************)
C31_ManifestInListingOrder ==
    \A c \in Manifests :
        LET listed == Blobs(SourceListing(calls[c].sha))
            manifest == calls[c].tree
        IN  /\ Len(manifest) = Len(listed)
            /\ \A k \in 1..Len(manifest) :
                  k <= Len(listed) =>
                      /\ manifest[k].path = listed[k].path
                      /\ manifest[k].sha = ShaOf(BlobContent(listed[k].sha).content)

\* a run that replicated every branch although a task overtook one listed
\* ahead of it in its window
C31_Witness ==
    /\ pc = "done" /\ caught = <<>>
    /\ overtook
    /\ \E c \in Manifests : Len(calls[c].tree) >= 2

(***************************************************************************)
(* C32.  For either window size, 5 (cloneRepo) or 10 (the edge function),  *)
(* a default-branch copy in which no call failed has the same outcome,     *)
(* given by the listing alone: the manifest holds the paths of the         *)
(* listing's blob entries in the order of the listing, and the commit made *)
(* of it holds exactly the source's files; the window size w shows only in *)
(* the number of progress entries, ceil(N/w).                              *)
(***************************************************************************)
PathsOf(entries) == [k \in 1..Len(entries) |-> entries[k].path]

DefaultManifests == {c \in Manifests : calls[c].sha = 0}

C32_OutcomeOf(w) ==
    /\ \A c \in DefaultManifests :
          PathsOf(calls[c].tree) = PathsOf(Blobs(SourceListing(0)))
    /\ (pc \in AfterCopy /\ loc.newCommit \in MadeInRun) =>
          {<<e.path, e.sha>> : e \in dstCommits[loc.newCommit].tree} =
              SrcFiles(srcRepo.default_branch)
    /\ pc \in AfterCopy => Len(ProgressLines) = (Len(blobs) + w - 1) \div w

C32_SameOutcomeForBothWindows ==
    \A w \in {ClientWindow, ServerWindow} : W = w => C32_OutcomeOf(w)

\* a list longer than both windows, copied in three windows of 5
C32_Witness ==
    /\ variant = "client" /\ pc = "done"
    /\ Len(blobs) > ServerWindow
    /\ Len(ProgressLines) = 3
    /\ DefaultManifests # {}

(***************************************************************************)
(* C33.  The request handler of the edge function: a request in which      *)
(* sourceUrl, destUrl, sourceToken or destToken is missing or empty is     *)
(* answered 400 and no call to the remote API is issued for it, by the     *)
(* main flow or by a task; a run that threw is answered 500 with           *)
(* success = false and the thrown error; a run that finished is answered   *)
(* 200 with success = true and the run's log array.  No other request is   *)
(* answered 400, and nothing is answered before the run has ended.         *)
(***************************************************************************)
FieldMissing ==
    sourceUrl = UrlEmpty \/ destUrl = UrlEmpty \/ sourceToken = "" \/ destToken = ""

Handled == variant = "server" /\ uiPc # "idle" /\ pc # "request"

C33_ServeAnswers ==
    Handled =>
        /\ FieldMissing =>
              /\ pc = "refused"
              /\ response.status = 400 /\ response.error = MissingFields
              /\ calls = <<>> /\ blobCalls = EmptyFn
        /\ pc = "failed" =>
              /\ response.status = 500 /\ ~response.success
              /\ response.error = error
        /\ pc = "done" =>
              /\ response.status = 200 /\ response.success
              /\ response.logs = logs /\ response.error = NoError
        /\ response.status = 400 => FieldMissing
        /\ response.status # 0 <=> pc \in {"refused", "failed", "done"}

\* a request whose only missing field is a token, answered 400
C33_Witness ==
    /\ variant = "server" /\ pc = "refused"
    /\ sourceUrl # UrlEmpty /\ destUrl # UrlEmpty
    /\ sourceToken = "" \/ destToken = ""
    /\ response.status = 400

====
